---- MODULE Spec2Model ----
(***************************************************************************)
(* Model of the query package (adamkeys/query): the schema walker          *)
(* (prepare, prepareNestedSet, prepareSet), the SQL renderer               *)
(* (statement.SQL and its writers), the row hydrator (the completion       *)
(* closures with their visited maps) and the execution coordinator         *)
(* (All, One).                                                             *)
(*                                                                         *)
(* Text (names, tags, SQL, dedup keys) is a sequence of one-character      *)
(* strings.  A row shape (a Go struct type) is a record                    *)
(*   [tname |-> type name, fields |-> sequence of field descriptors]       *)
(* and a field descriptor is                                               *)
(*   [kind, name, tag, tname, sub]                                         *)
(* where kind is one of the marker type names, "slice" (has-many),         *)
(* "struct" (a field of unnamed struct type: nested single join),          *)
(* "embedded" (anonymous field of a named struct type) or "scalar";        *)
(* sub is the field list of the element / nested type and tname its type   *)
(* name (empty for an unnamed type).                                       *)
(***************************************************************************)
EXTENDS Integers, Sequences, FiniteSets, TLC

\* ------------------------------------------------------------------------
\* Bounds of the model
\* ------------------------------------------------------------------------
MaxRows == 3
MaxIdent == 2
MaxRand == 1

\* ------------------------------------------------------------------------
\* State
\* ------------------------------------------------------------------------
VARIABLES
    calls,      \* the calls started so far
    past,       \* the rows the cursors of the earlier calls yielded
    shape,      \* the Source type of the call
    tx,         \* the kind of Transaction handed to the call
    op,         \* "All" or "One"
    args,       \* the positional arguments of the call
    pc,         \* position of the call
    bindings,   \* the binding slots handed to Scan
    query,      \* the prepared statement as the collaborators see it
    trace,      \* the calls made to the collaborators so far, in order
    rowsRead,   \* rows the cursor has yielded
    fed,        \* the rows the cursor has yielded, in order
    cursor,     \* "none", "open" or "closed"
    idents,     \* the ident variable of every has-many
    rows,       \* the row value of every has-many (and of the root)
    arrays,     \* the backing arrays allocated so far
    results,    \* the slice header of `results`
    visited,    \* the visited maps
    ret,        \* what the call returned
    built,      \* SchemaWalker output under inspection
    sql         \* Renderer output under inspection

vars == <<calls, past, shape, tx, op, args, pc, bindings, query, trace, rowsRead, fed, cursor,
          idents, rows, arrays, results, visited, ret, built, sql>>

execVars == <<calls, past, op, args, bindings, query, trace, rowsRead, fed, cursor,
              idents, rows, arrays, results, visited, ret>>

\* ------------------------------------------------------------------------
\* Transactions and their Options
\* ------------------------------------------------------------------------
\* the kinds of Transaction: a plain *sql.DB (neither NameWith nor Log), and
\* a query.DB whose Options are nil, carry only a Logger, or carry only a
\* Namer (testNamer)
TxKinds == {"sqlDB", "nilOptionsDB", "queryDB", "namerDB"}

\* tx.(interface{ NameWith() Namer }) and tx.(interface{ Log(string, []any) })
\* succeed: the handle embeds *Options
hasOptionsMethods(t) == t # "sqlDB"

\* the *Options of a handle: <<>> is the nil pointer
OptionsOf(t) ==
    CASE t = "queryDB" -> <<[Namer |-> "nil", Logger |-> "func"]>>
      [] t = "namerDB" -> <<[Namer |-> "testNamer", Logger |-> "nil"]>>
      [] OTHER -> <<>>

\* (*Options).NameWith
OptionsNameWith(o) == IF o = <<>> THEN "nil" ELSE o[1].Namer

\* variant: the default namer whatever the transaction provides
nameWithDefault(t) == "defaultNamer"

\* nameWith(tx)
nameWith(t) ==
    IF ~hasOptionsMethods(t) THEN "defaultNamer"
    ELSE LET namer == OptionsNameWith(OptionsOf(t))
         IN  IF namer = "nil" THEN "defaultNamer" ELSE namer

\* variant: Log without the checks for nil Options and a nil Logger
OptionsLogUnchecked(o) == TRUE

\* (*Options).Log reaches the Logger
OptionsLog(o) == ~(o = <<>> \/ o[1].Logger = "nil")

\* ------------------------------------------------------------------------
\* Text helpers
\* ------------------------------------------------------------------------
Upper == <<"A","B","C","D","E","F","G","H","I","J","K","L","M",
           "N","O","P","Q","R","S","T","U","V","W","X","Y","Z">>
Lower == <<"a","b","c","d","e","f","g","h","i","j","k","l","m",
           "n","o","p","q","r","s","t","u","v","w","x","y","z">>
Digits == <<"0","1","2","3","4","5","6","7","8","9">>

Range(s) == {s[i] : i \in DOMAIN s}
IsUpper(c) == c \in Range(Upper)
IsLower(c) == c \in Range(Lower)
IsDigit(c) == c \in Range(Digits)

\* strings.ToLower on one character
ToLowerChar(c) ==
    IF IsUpper(c) THEN Lower[CHOOSE i \in DOMAIN Upper : Upper[i] = c] ELSE c

\* strings.ToLower
ToLower(s) == [i \in DOMAIN s |-> ToLowerChar(s[i])]

RECURSIVE Itoa(_)
\* strconv.Itoa
Itoa(n) ==
    IF n < 0 THEN <<"-">> \o Itoa(0 - n)
    ELSE IF n < 10 THEN <<Digits[n + 1]>>
    ELSE Itoa(n \div 10) \o <<Digits[(n % 10) + 1]>>

\* end (inclusive) of the run [a-z]+ that starts at position p of s
RECURSIVE LowerRunEnd(_, _)
LowerRunEnd(s, p) ==
    IF p + 1 <= Len(s) /\ IsLower(s[p + 1]) THEN LowerRunEnd(s, p + 1) ELSE p

\* matchFirst.ReplaceAllString(s, "${1}_${2}") from position p on
RECURSIVE ReplaceFirst(_, _)
ReplaceFirst(s, p) ==
    IF p > Len(s) THEN <<>>
    ELSE IF p + 2 <= Len(s) /\ IsUpper(s[p + 1]) /\ IsLower(s[p + 2])
         THEN LET e == LowerRunEnd(s, p + 2)
              IN  <<s[p], "_">> \o SubSeq(s, p + 1, e) \o ReplaceFirst(s, e + 1)
         ELSE <<s[p]>> \o ReplaceFirst(s, p + 1)

\* matchRemaining.ReplaceAllString(s, "${1}_${2}") from position p on
RECURSIVE ReplaceRemaining(_, _)
ReplaceRemaining(s, p) ==
    IF p > Len(s) THEN <<>>
    ELSE IF p + 1 <= Len(s) /\ (IsLower(s[p]) \/ IsDigit(s[p])) /\ IsUpper(s[p + 1])
         THEN <<s[p], "_", s[p + 1]>> \o ReplaceRemaining(s, p + 2)
         ELSE <<s[p]>> \o ReplaceRemaining(s, p + 1)

\* underscore: snake case of an identifier
underscore(str) == ToLower(ReplaceRemaining(ReplaceFirst(str, 1), 1))

\* ------------------------------------------------------------------------
\* Namer: the namer of the call, standardNamer or testNamer
\* ------------------------------------------------------------------------
usesTestNamer == nameWith(tx) = "testNamer"

NamerIdent(name) ==
    IF usesTestNamer THEN <<"n","a","m","e">> ELSE <<"i","d">>
NamerTable(name) ==
    IF usesTestNamer THEN <<"u","s","e","r","s">> ELSE underscore(name)
\* variant: the column name is the lower-cased field name
NamerColumnLower(name) == ToLower(name)

NamerColumn(name) ==
    IF usesTestNamer THEN <<"n","a","m","e">> ELSE underscore(name)

\* ------------------------------------------------------------------------
\* Statement
\* ------------------------------------------------------------------------
Markers == {"Table", "Conditions", "OrderBy", "GroupBy", "LeftJoin", "Limit", "Offset"}

\* statement{columns: make([]column, 0, ...)}: the zero statement
emptyStatement ==
    [columns |-> <<>>, table |-> <<>>, conditions |-> <<>>, order |-> <<>>,
     group |-> <<>>, limit |-> <<>>, offset |-> <<>>, join |-> "joinNone",
     on |-> <<>>, joins |-> <<>>]

\* column{name: ..., as: ..., useTable: ...}
Column(name, as, useTable) == [name |-> name, as |-> as, useTable |-> useTable]

\* a binding slot: the address of the field at `path` inside the row value
\* owned by the has-many whose position in the shape is `hm` (<<>> is the root
\* row), or the address of that has-many's local `ident` variable
FieldSlot(hm, path) == [ident |-> FALSE, hm |-> hm, path |-> path]
IdentSlot(hm) == [ident |-> TRUE, hm |-> hm, path |-> <<>>]

\* fmt.Errorf("%T.%s requires a struct tag describing the join conditions")
\* raised with panic: the walker's result when a declaration is invalid
Panicked == [panic |-> TRUE, stmt |-> emptyStatement, bindings |-> <<>>]

\* ------------------------------------------------------------------------
\* SchemaWalker
\* ------------------------------------------------------------------------
RECURSIVE prepare(_, _, _, _, _, _)
RECURSIVE prepareLoop(_, _, _, _, _, _, _)
RECURSIVE prepareNestedSet(_, _, _)

\* the join set-up shared by the slice and the unnamed-struct cases:
\* default table from the field name, default join kind, predicate
JoinStatement(s, fld) ==
    LET s1 == IF s.table = <<>> THEN [s EXCEPT !.table = NamerTable(fld.name)] ELSE s
        s2 == IF s1.join = "joinNone" THEN [s1 EXCEPT !.join = "joinInner"] ELSE s1
    IN  [s2 EXCEPT !.on = fld.tag]

\* variant: the join predicate is never required
missingJoinTagNever(fld) == FALSE

\* if tag == "" { panic(...) }: a join field without a join predicate
missingJoinTag(fld) == fld.tag = <<>>

\* variant: the table of an embedded shape replaces the table set so far
embeddedTableLast(own, emb) == emb

\* if stmt.table == "" { stmt.table = s.table }: the table an embedded shape
\* leaves to the composing statement
embeddedTable(own, emb) == IF own = <<>> THEN emb ELSE own

\* variant: the expressions of an embedded shape come after those collected
\* so far
appendEmbedded(emb, own) == own \o emb

\* append(s.conditions, stmt.conditions...): the expressions of an embedded
\* shape come before those collected so far
prependEmbedded(emb, own) == emb \o own

\* one iteration of the loop of prepare: the switch on field i
prepareField(st, fld, i, depth, hm, rel, rnd) ==
    LET stmt == st.stmt IN
    CASE fld.kind = "Table" ->
           [st EXCEPT !.stmt.table = fld.tag]
      [] fld.kind = "Conditions" ->
           [st EXCEPT !.stmt.conditions = Append(stmt.conditions, fld.tag)]
      [] fld.kind = "OrderBy" ->
           [st EXCEPT !.stmt.order = Append(stmt.order, fld.tag)]
      [] fld.kind = "GroupBy" ->
           [st EXCEPT !.stmt.group = Append(stmt.group, fld.tag)]
      [] fld.kind = "LeftJoin" ->
           [st EXCEPT !.stmt.join = "joinLeft"]
      [] fld.kind = "Limit" ->
           [st EXCEPT !.stmt.limit = fld.tag]
      [] fld.kind = "Offset" ->
           [st EXCEPT !.stmt.offset = fld.tag]
      [] fld.kind = "slice" ->
           IF missingJoinTag(fld) THEN Panicked
           ELSE LET n == prepareNestedSet(fld, hm \o rel \o <<i>>, rnd)
                IN  IF n.panic THEN Panicked
                    ELSE [st EXCEPT
                            !.stmt.joins = Append(stmt.joins, JoinStatement(n.stmt, fld)),
                            !.bindings = st.bindings \o n.bindings]
      [] fld.kind = "struct" ->
           IF missingJoinTag(fld) THEN Panicked
           ELSE LET n == prepare(fld.sub, fld.tname, depth + 1, hm, rel \o <<i>>, rnd)
                IN  IF n.panic THEN Panicked
                    ELSE [st EXCEPT
                            !.stmt.joins = Append(stmt.joins, JoinStatement(n.stmt, fld)),
                            !.bindings = st.bindings \o n.bindings]
      [] fld.kind = "embedded" ->
           LET n == prepare(fld.sub, fld.tname, depth + 1, hm, rel \o <<i>>, rnd)
               s == n.stmt
           IN  IF n.panic THEN Panicked
               ELSE [st EXCEPT
                       !.stmt.table = embeddedTable(stmt.table, s.table),
                       !.stmt.columns = s.columns \o stmt.columns,
                       !.stmt.conditions = prependEmbedded(s.conditions, stmt.conditions),
                       !.stmt.group = prependEmbedded(s.group, stmt.group),
                       !.stmt.order = prependEmbedded(s.order, stmt.order),
                       !.stmt.joins = s.joins \o stmt.joins,
                       !.bindings = st.bindings \o n.bindings]
      [] OTHER ->
           LET col == IF fld.tag = <<>>
                      THEN Column(NamerColumn(fld.name), <<>>, TRUE)
                      ELSE Column(fld.tag, <<>>, FALSE)
           IN  [st EXCEPT
                  !.stmt.columns = Append(stmt.columns, col),
                  !.bindings = Append(st.bindings, FieldSlot(hm, rel \o <<i>>))]

\* the loop of prepare from field i on
prepareLoop(fields, i, st, depth, hm, rel, rnd) ==
    IF st.panic \/ i > Len(fields) THEN st
    ELSE prepareLoop(fields, i + 1,
                     prepareField(st, fields[i], i, depth, hm, rel, rnd),
                     depth, hm, rel, rnd)

\* prepare: the statement and the binding slots of the struct value with the
\* given fields, found at `rel` inside the row of has-many `hm`
prepare(fields, tname, depth, hm, rel, rnd) ==
    LET st == prepareLoop(fields, 1,
                          [panic |-> FALSE, stmt |-> emptyStatement, bindings |-> <<>>],
                          depth, hm, rel, rnd)
    IN  IF st.panic THEN Panicked
        ELSE IF depth = 0 /\ st.stmt.table = <<>>
             THEN [st EXCEPT !.stmt.table = NamerTable(tname)]
             ELSE st

\* prepareNestedSet: prepare of the element type plus the synthesized
\* identity column and its binding, both placed first
prepareNestedSet(fld, hm, rnd) ==
    LET n == prepare(fld.sub, fld.tname, 0, hm, <<>>, rnd)
        identCol == Column(NamerIdent(<<>>),
                           <<"i","d","e","n","t">> \o Itoa(rnd[hm]), TRUE)
    IN  IF n.panic THEN Panicked
        ELSE [n EXCEPT !.stmt.columns = <<identCol>> \o n.stmt.columns,
                       !.bindings = <<IdentSlot(hm)>> \o n.bindings]

RECURSIVE hasManyFields(_)
\* hasMany on a struct type: some field is a slice, at any depth
hasManyFields(fields) ==
    \E i \in DOMAIN fields :
        \/ fields[i].kind = "slice"
        \/ fields[i].kind \in {"struct", "embedded"} /\ hasManyFields(fields[i].sub)

hasMany(sh) == hasManyFields(sh.fields)

\* prepareSet: the top level call for a set of results of the given shape
prepareSet(sh, rnd) ==
    IF ~hasMany(sh)
    THEN prepare(sh.fields, sh.tname, 0, <<>>, <<>>, rnd)
    ELSE prepareNestedSet([sub |-> sh.fields, tname |-> sh.tname], <<>>, rnd)

\* ------------------------------------------------------------------------
\* Renderer
\* ------------------------------------------------------------------------
RECURSIVE writeColumns(_, _)
RECURSIVE writeColumnsJoins(_, _, _)

\* the loop over s.columns of writeColumns, from column k on; i counts the
\* columns written before
RECURSIVE writeOwnColumns(_, _, _)
writeOwnColumns(s, k, i) ==
    IF k > Len(s.columns) THEN <<>>
    ELSE (IF i > 0 THEN <<",", " ">> ELSE <<>>)
         \o (IF s.columns[k].useTable THEN s.table \o <<".">> ELSE <<>>)
         \o s.columns[k].name
         \o writeOwnColumns(s, k + 1, i + 1)

\* the loop over s.joins of writeColumns: each join is handed the same i
writeColumnsJoins(joins, k, i) ==
    IF k > Len(joins) THEN <<>>
    ELSE writeColumns(joins[k], i) \o writeColumnsJoins(joins, k + 1, i)

\* statement.writeColumns
writeColumns(s, i) ==
    writeOwnColumns(s, 1, i) \o writeColumnsJoins(s.joins, 1, i + Len(s.columns))

RECURSIVE ColumnList(_)
RECURSIVE ColumnListJoins(_, _)
\* the columns in the order writeColumns emits them
ColumnList(s) == s.columns \o ColumnListJoins(s.joins, 1)
ColumnListJoins(joins, k) ==
    IF k > Len(joins) THEN <<>>
    ELSE ColumnList(joins[k]) \o ColumnListJoins(joins, k + 1)

RECURSIVE writeJoin(_)
RECURSIVE writeJoins(_, _)
\* statement.writeJoin
writeJoin(s) ==
    IF s.join = "joinNone" THEN <<>>
    ELSE (IF s.join = "joinInner"
          THEN <<" ","I","N","N","E","R"," ","J","O","I","N"," ">>
          ELSE <<" ","L","E","F","T"," ","J","O","I","N"," ">>)
         \o s.table \o <<" ","O","N"," ">> \o s.on
         \o writeJoins(s.joins, 1)
writeJoins(joins, k) ==
    IF k > Len(joins) THEN <<>>
    ELSE writeJoin(joins[k]) \o writeJoins(joins, k + 1)

RECURSIVE hasConditions(_)
\* statement.hasConditions
hasConditions(s) ==
    \/ \E k \in DOMAIN s.joins : hasConditions(s.joins[k])
    \/ Len(s.conditions) > 0

RECURSIVE writeConditions(_, _)
RECURSIVE writeConditionsJoins(_, _, _)
\* the loop over s.conditions of writeConditions
RECURSIVE writeOwnConditions(_, _)
writeOwnConditions(s, i) ==
    IF i > Len(s.conditions) THEN <<>>
    ELSE (IF i - 1 > 0 THEN <<" ","A","N","D"," ">> ELSE <<>>)
         \o <<"(">> \o s.conditions[i] \o <<")">>
         \o writeOwnConditions(s, i + 1)
writeConditionsJoins(joins, k, depth) ==
    IF k > Len(joins) THEN <<>>
    ELSE writeConditions(joins[k], depth) \o writeConditionsJoins(joins, k + 1, depth)
\* statement.writeConditions
writeConditions(s, depth) ==
    writeOwnConditions(s, 1) \o writeConditionsJoins(s.joins, 1, depth + 1)

RECURSIVE hasGroup(_)
\* statement.hasGroup
hasGroup(s) ==
    \/ \E k \in DOMAIN s.joins : hasGroup(s.joins[k])
    \/ Len(s.group) > 0

\* the loop shared in form by writeGroup and writeOrder: expression i of
\* list, separated when i+depth > 0 (i counted from 0)
RECURSIVE writeList(_, _, _)
writeList(list, i, depth) ==
    IF i > Len(list) THEN <<>>
    ELSE (IF (i - 1) + depth > 0 THEN <<",", " ">> ELSE <<>>)
         \o list[i] \o writeList(list, i + 1, depth)

RECURSIVE writeGroup(_, _)
RECURSIVE writeGroupJoins(_, _, _)
writeGroupJoins(joins, k, depth) ==
    IF k > Len(joins) THEN <<>>
    ELSE writeGroup(joins[k], depth) \o writeGroupJoins(joins, k + 1, depth)
\* statement.writeGroup
writeGroup(s, depth) ==
    writeList(s.group, 1, depth) \o writeGroupJoins(s.joins, 1, depth + 1)

RECURSIVE hasOrder(_)
\* statement.hasOrder
hasOrder(s) ==
    \/ \E k \in DOMAIN s.joins : hasOrder(s.joins[k])
    \/ Len(s.order) > 0

RECURSIVE writeOrder(_, _)
RECURSIVE writeOrderJoins(_, _, _)
writeOrderJoins(joins, k, depth) ==
    IF k > Len(joins) THEN <<>>
    ELSE writeOrder(joins[k], depth) \o writeOrderJoins(joins, k + 1, depth)
\* statement.writeOrder
writeOrder(s, depth) ==
    writeList(s.order, 1, depth) \o writeOrderJoins(s.joins, 1, depth + 1)

\* variant: LIMIT and OFFSET written before WHERE
SQLLimitFirst(s) ==
    <<"S","E","L","E","C","T"," ">> \o writeColumns(s, 0)
    \o <<" ","F","R","O","M"," ">> \o s.table
    \o writeJoins(s.joins, 1)
    \o (IF s.limit # <<>> THEN <<" ","L","I","M","I","T"," ">> \o s.limit ELSE <<>>)
    \o (IF s.offset # <<>> THEN <<" ","O","F","F","S","E","T"," ">> \o s.offset ELSE <<>>)
    \o (IF hasConditions(s)
        THEN <<" ","W","H","E","R","E"," ">> \o writeConditions(s, 0) ELSE <<>>)
    \o (IF hasGroup(s)
        THEN <<" ","G","R","O","U","P"," ","B","Y"," ">> \o writeGroup(s, 0) ELSE <<>>)
    \o (IF hasOrder(s)
        THEN <<" ","O","R","D","E","R"," ","B","Y"," ">> \o writeOrder(s, 0) ELSE <<>>)

\* statement.SQL
SQL(s) ==
    <<"S","E","L","E","C","T"," ">> \o writeColumns(s, 0)
    \o <<" ","F","R","O","M"," ">> \o s.table
    \o writeJoins(s.joins, 1)
    \o (IF hasConditions(s)
        THEN <<" ","W","H","E","R","E"," ">> \o writeConditions(s, 0) ELSE <<>>)
    \o (IF hasGroup(s)
        THEN <<" ","G","R","O","U","P"," ","B","Y"," ">> \o writeGroup(s, 0) ELSE <<>>)
    \o (IF hasOrder(s)
        THEN <<" ","O","R","D","E","R"," ","B","Y"," ">> \o writeOrder(s, 0) ELSE <<>>)
    \o (IF s.limit # <<>> THEN <<" ","L","I","M","I","T"," ">> \o s.limit ELSE <<>>)
    \o (IF s.offset # <<>> THEN <<" ","O","F","F","S","E","T"," ">> \o s.offset ELSE <<>>)

\* ------------------------------------------------------------------------
\* Values, slices and the heap
\* ------------------------------------------------------------------------
\* A struct value is a sequence with one entry per field: a scalar payload
\* <<row, column>> (<<0, 0>> is the zero value), <<>> for a marker, a slice
\* header [arr, len] for a has-many field (arr = 0 is the nil slice) and a
\* nested struct value for a struct or embedded field.  A backing array is
\* [cap, data] with Len(data) = cap.
NilSlice == [arr |-> 0, len |-> 0]
ZeroScalar == <<0, 0>>

RECURSIVE ZeroValue(_)
\* reflect.New(typ).Elem(): the zero value of a struct type
ZeroValue(fields) ==
    [i \in DOMAIN fields |->
        CASE fields[i].kind \in Markers -> <<>>
          [] fields[i].kind = "slice" -> NilSlice
          [] fields[i].kind \in {"struct", "embedded"} -> ZeroValue(fields[i].sub)
          [] OTHER -> ZeroScalar]

\* identity values as the driver delivers them into `var ident any`
NilIdent == [t |-> "nil", n |-> 0, s |-> <<>>]
Int64Ident(n) == [t |-> "int64", n |-> n, s |-> <<>>]
StringIdent(s) == [t |-> "string", n |-> 0, s |-> s]

\* asString
asString(v) ==
    CASE v.t = "string" -> v.s
      [] v.t = "int64" -> Itoa(v.n)
      [] OTHER -> <<"<","n","i","l",">">>

RECURSIVE Hash(_)
\* rowRef.Hash: the chain is the rowRef list, this identity first, then the
\* parent's, up to the root
Hash(chain) ==
    IF chain = <<>> THEN <<>>
    ELSE <<".">> \o Head(chain) \o Hash(Tail(chain))

RECURSIVE ReadPath(_, _)
\* reflect.Value.Field along a path of field indices
ReadPath(v, path) ==
    IF path = <<>> THEN v ELSE ReadPath(v[Head(path)], Tail(path))

RECURSIVE WritePath(_, _, _)
WritePath(v, path, new) ==
    IF path = <<>> THEN new
    ELSE [v EXCEPT ![Head(path)] = WritePath(v[Head(path)], Tail(path), new)]

\* An addressable reflect.Value: field `path` of element idx of backing array
\* arr; arr = 0 is the local variable `results` of All.
ResultsLoc == [arr |-> 0, idx |-> 0, path |-> <<>>]
FieldLoc(loc, i) == [loc EXCEPT !.path = loc.path \o <<i>>]

ReadLoc(h, loc) ==
    IF loc.arr = 0 THEN h.results
    ELSE ReadPath(h.arrays[loc.arr].data[loc.idx], loc.path)

WriteLoc(h, loc, v) ==
    IF loc.arr = 0 THEN [h EXCEPT !.results = v]
    ELSE [h EXCEPT !.arrays[loc.arr].data[loc.idx] = WritePath(@, loc.path, v)]

\* capacity of the array reflect.Append allocates when the old one is full
\* (runtime growslice below 256 elements: double, at least the needed length)
GrowCap(oldCap, needed) ==
    IF needed > 2 * oldCap THEN needed ELSE 2 * oldCap

\* val.Set(reflect.Append(val, e)): append e to the slice stored at loc.
\* With spare capacity the element is written in place, otherwise the
\* elements are copied to a fresh backing array; the new header is stored at
\* loc.  Yields the heap and the header.
SetAppend(h, loc, e, zero) ==
    LET hdr == ReadLoc(h, loc)
        oldCap == IF hdr.arr = 0 THEN 0 ELSE h.arrays[hdr.arr].cap
    IN  IF hdr.len < oldCap
        THEN LET nh == [arr |-> hdr.arr, len |-> hdr.len + 1]
                 h1 == [h EXCEPT !.arrays[hdr.arr].data[hdr.len + 1] = e]
             IN  [h |-> WriteLoc(h1, loc, nh), hdr |-> nh]
        ELSE LET newCap == GrowCap(oldCap, hdr.len + 1)
                 data == [k \in 1..newCap |->
                            IF k <= hdr.len THEN h.arrays[hdr.arr].data[k]
                            ELSE IF k = hdr.len + 1 THEN e ELSE zero]
                 nh == [arr |-> Len(h.arrays) + 1, len |-> hdr.len + 1]
                 h1 == [h EXCEPT !.arrays = Append(h.arrays, [cap |-> newCap, data |-> data])]
             IN  [h |-> WriteLoc(h1, loc, nh), hdr |-> nh]

\* ------------------------------------------------------------------------
\* RowHydrator: the completion closures
\* ------------------------------------------------------------------------
RECURSIVE completePrepare(_, _, _, _, _, _, _, _)
RECURSIVE completeNestedSet(_, _, _, _, _, _)

\* variant: a NULL identity is treated like any other identity
isNilIdentNever(v) == FALSE

\* if ident == nil: no row was matched for this has-many
isNilIdent(v) == v.t = "nil"

\* variant: the lookup never finds a recorded element
VisitedNever(h, hm, hash) == {}

\* variant: all has-many share one visited map
VisitedShared(h, hm, hash) == {e \in h.visited : e.hash = hash}

\* the visited map of the has-many hm
Visited(h, hm, hash) == {e \in h.visited : e.hm = hm /\ e.hash = hash}

\* the completion returned by prepareNestedSet for the has-many at hm whose
\* element type has the given fields; val is the slice to add to; env holds
\* the scanned ident variables and row values
completeNestedSet(fields, hm, parent, val, h, env) ==
    IF isNilIdent(env.idents[hm]) THEN h
    ELSE LET ref == <<asString(env.idents[hm])>> \o parent
             hash == Hash(ref)
             seen == Visited(h, hm, hash)
         IN  IF seen # {}
             THEN completePrepare(fields, 1, ref, (CHOOSE e \in seen : TRUE).loc,
                                  h, env, hm, <<>>)
             ELSE LET a == SetAppend(h, val, env.rows[hm], ZeroValue(fields))
                      added == [arr |-> a.hdr.arr, idx |-> a.hdr.len, path |-> <<>>]
                      h1 == [a.h EXCEPT !.visited = @ \cup
                               {[hm |-> hm, hash |-> hash, loc |-> added]}]
                  IN  completePrepare(fields, 1, ref, added, h1, env, hm, <<>>)

\* the completion returned by prepare: the closures composed with appendFn,
\* run in field order from field i on; v is the struct value they work on
completePrepare(fields, i, r, v, h, env, hm, rel) ==
    IF i > Len(fields) THEN h
    ELSE LET fld == fields[i]
             h1 == CASE fld.kind = "slice" ->
                         completeNestedSet(fld.sub, hm \o rel \o <<i>>, r,
                                           FieldLoc(v, i), h, env)
                      [] fld.kind \in {"struct", "embedded"} ->
                         completePrepare(fld.sub, 1, r, FieldLoc(v, i), h, env,
                                         hm, rel \o <<i>>)
                      [] OTHER -> h
         IN  completePrepare(fields, i + 1, r, v, h1, env, hm, rel)

\* the completion returned by prepareSet
completeSet(sh, h, env) ==
    IF ~hasMany(sh)
    THEN SetAppend(h, ResultsLoc, env.rows[<<>>], ZeroValue(sh.fields)).h
    ELSE completeNestedSet(sh.fields, <<>>, <<>>, ResultsLoc, h, env)

RECURSIVE Deref(_, _, _)
\* the object graph reachable from a struct value: slice headers replaced by
\* the sequence of the elements they denote
Deref(fields, v, arrs) ==
    [i \in DOMAIN fields |->
        CASE fields[i].kind = "slice" ->
               [k \in 1..v[i].len |->
                   Deref(fields[i].sub, arrs[v[i].arr].data[k], arrs)]
          [] fields[i].kind \in {"struct", "embedded"} ->
               Deref(fields[i].sub, v[i], arrs)
          [] OTHER -> v[i]]

\* the object graph of a slice of struct values
DerefSlice(fields, hdr, arrs) ==
    [k \in 1..hdr.len |-> Deref(fields, arrs[hdr.arr].data[k], arrs)]

\* ------------------------------------------------------------------------
\* Row shapes
\* ------------------------------------------------------------------------
Scalar(name, tag) ==
    [kind |-> "scalar", name |-> name, tag |-> tag,
     tname |-> <<"s","t","r","i","n","g">>, sub |-> <<>>]
Marker(kind, name, tag) ==
    [kind |-> kind, name |-> name, tag |-> tag, tname |-> name, sub |-> <<>>]
Struct(name, tag, sub) ==
    [kind |-> "struct", name |-> name, tag |-> tag, tname |-> <<>>, sub |-> sub]
Slice(name, tag, tname, sub) ==
    [kind |-> "slice", name |-> name, tag |-> tag, tname |-> tname, sub |-> sub]
Embedded(tname, sub) ==
    [kind |-> "embedded", name |-> tname, tag |-> <<>>, tname |-> tname, sub |-> sub]

mTable(tag) == Marker("Table", <<"T","a","b","l","e">>, tag)
mConditions(tag) == Marker("Conditions", <<"C","o","n","d","i","t","i","o","n","s">>, tag)
mOrderBy(tag) == Marker("OrderBy", <<"O","r","d","e","r","B","y">>, tag)
mGroupBy(tag) == Marker("GroupBy", <<"G","r","o","u","p","B","y">>, tag)
mLimit(tag) == Marker("Limit", <<"L","i","m","i","t">>, tag)
mOffset(tag) == Marker("Offset", <<"O","f","f","s","e","t">>, tag)
mLeftJoin == Marker("LeftJoin", <<"L","e","f","t","J","o","i","n">>, <<>>)

fName == Scalar(<<"N","a","m","e">>, <<>>)
fCity == Scalar(<<"C","i","t","y">>, <<>>)
fToy == Scalar(<<"T","o","y">>, <<>>)
fNick == Scalar(<<"N","i","c","k">>, <<>>)
fLabel == Scalar(<<"L","a","b","e","l">>, <<>>)
fUserID == Scalar(<<"U","s","e","r","I","D">>, <<>>)
fCount == Scalar(<<"C","o","u","n","t">>, <<"C","O","U","N","T","(","*",")">>)
fCode == Scalar(<<"C","o","d","e">>, <<>>)
fLat == Scalar(<<"L","a","t">>, <<"g",".","l","a","t">>)
fEmail == Scalar(<<"E","m","a","i","l">>, <<>>)
fRev == Scalar(<<"R","e","v">>, <<>>)
fNote == Scalar(<<"N","o","t","e">>, <<>>)
fUserName == Scalar(<<"U","s","e","r","N","a","m","e">>, <<>>)

\* join predicates
onA == <<"a","=","b">>
onB == <<"c","=","d">>
onC == <<"e","=","f">>

fAddr == Struct(<<"A","d","d","r">>, onA, <<fCity>>)
fGeo == Struct(<<"G","e","o">>, onB,
               <<mLeftJoin, mConditions(<<"c","3">>), Struct(<<"Z","o","n","e">>, onC, <<fCode>>), fLat>>)
fKids == Slice(<<"K","i","d","s">>, onB, <<>>,
               <<mTable(<<"t","k">>), mOrderBy(<<"o","2">>), mLimit(<<"9">>), fToy>>)
fPets == Slice(<<"P","e","t","s">>, onC, <<"P","e","t">>,
               <<fNick, Slice(<<"T","a","g","s">>, onA, <<>>, <<fLabel>>)>>)
fBase == Embedded(<<"B","a","s","e">>, <<fUserID, fEmail>>)
fMeta == Embedded(<<"M","e","t","a">>,
                  <<mConditions(<<"c","2">>), mTable(<<"t","2">>), mGroupBy(<<"g","2">>),
                    Struct(<<"I","n","f","o">>, onA, <<fNote>>), fRev>>)
\* declarations without a join predicate
fBadOne == Struct(<<"L","o","s","t">>, <<>>, <<fCode>>)
fBadMany == Slice(<<"G","o","n","e">>, <<>>, <<>>, <<fLabel>>)
fBadEmbedded == Embedded(<<"M","i","x">>, <<fEmail, fBadOne>>)
fBadDeep == Slice(<<"D","e","e","p">>, onA, <<>>, <<fNick, fBadMany>>)

\* the fields a shape of WalkShapes is made of
WalkPool ==
    <<fName, fCount, fAddr, fGeo, fKids, fPets, fBase, fMeta,
      mTable(<<"t","1">>), mConditions(<<"c","1">>), mOrderBy(<<"o","1">>),
      mGroupBy(<<"g","1">>), mLimit(<<"1">>), mOffset(<<"2">>),
      fBadOne, fBadMany, fBadEmbedded, fBadDeep>>

MaxFields == 2

\* the type names of the generated shapes
WalkTypeNames == {<<"u","s","e","r","s">>, <<"U","s","e","r","A","c","c","o","u","n","t">>}

\* every struct type whose fields are up to MaxFields distinct fields of the
\* pool, in any order
PoolShapes ==
    {[tname |-> n, fields |-> [i \in DOMAIN f |-> WalkPool[f[i]]]] :
        n \in WalkTypeNames,
        f \in {g \in UNION {[1..k -> DOMAIN WalkPool] : k \in 1..MaxFields} :
                 \A i, j \in DOMAIN g : i # j => g[i] # g[j]}}

condName == <<"n","a","m","e"," ","="," ","?">>
orderName == <<"n","a","m","e"," ","A","S","C">>

\* an embedded shape that declares every marker
fFull == Embedded(<<"F","u","l","l">>,
                  <<mTable(<<"t","3">>), mConditions(<<"c","3">>), mGroupBy(<<"g","3">>),
                    mOrderBy(<<"o","3">>), mLimit(<<"7">>), mOffset(<<"8">>), fEmail>>)

\* struct types with more fields than the generated ones
whereOrder == [tname |-> <<"u","s","e","r","s">>,
               fields |-> <<mConditions(condName), mOrderBy(orderName), fName, fAddr,
                            mLimit(<<"1">>), mOffset(<<"2">>)>>]
wherePlain == [tname |-> <<"u","s","e","r","s">>,
               fields |-> <<fName, mOrderBy(orderName), mConditions(condName)>>]
allClauses == [tname |-> <<"U","s","e","r","A","c","c","o","u","n","t">>,
               fields |-> <<mOffset(<<"2">>), mLimit(<<"1">>), mOrderBy(<<"o","1">>),
                            mGroupBy(<<"g","1">>), mConditions(<<"c","1">>), fGeo, fKids,
                            fUserID>>]
scalarsOnly == [tname |-> <<"U","s","e","r","A","c","c","o","u","n","t">>,
                fields |-> <<fUserID, fCount, fName, fLat>>]
composed == [tname |-> <<"U","s","e","r","A","c","c","o","u","n","t">>,
             fields |-> <<fName, fFull>>]
composedTable == [tname |-> <<"U","s","e","r","A","c","c","o","u","n","t">>,
                  fields |-> <<fFull, mTable(<<"t","1">>), fBase, fName>>]
\* a join that alone declares conditions, group-by and order-by
joinProperties ==
    [tname |-> <<"u","s","e","r","s">>,
     fields |-> <<Scalar(<<"N","a","m","e">>, <<"n","a","m","e">>),
                  Struct(<<"A","d","d","r","e","s","s","e","s">>, onA,
                         <<mOrderBy(orderName), mGroupBy(<<"n","a","m","e">>),
                           mConditions(condName),
                           Scalar(<<"C","i","t","y">>, <<"c","i","t","y">>)>>)>>]
\* two joins side by side under a root without columns, each with its own
\* conditions, group-by and order-by
siblingJoins ==
    [tname |-> <<"u","s","e","r","s">>,
     fields |-> <<Struct(<<"A","d","d","r">>, onA,
                         <<mConditions(<<"c","4">>), mGroupBy(<<"g","4">>),
                           mOrderBy(<<"o","4">>), fCity>>),
                  Struct(<<"Z","o","n","e">>, onB,
                         <<mConditions(<<"c","5">>), mGroupBy(<<"g","5">>),
                           mOrderBy(<<"o","5">>), fCode>>)>>]
\* limit and offset declared in the root, in a single join and in a has-many
pagedJoins ==
    [tname |-> <<"u","s","e","r","s">>,
     fields |-> <<mLimit(<<"1">>), mOffset(<<"2">>), fName,
                  Struct(<<"A","d","d","r">>, onA, <<mLimit(<<"5">>), mOffset(<<"6">>), fCity>>),
                  Slice(<<"K","i","d","s">>, onB, <<>>,
                        <<mLimit(<<"9">>), mOffset(<<"4">>), fToy>>)>>]
\* limit and offset declared in a single join and in a has-many only
pagedNested ==
    [tname |-> <<"u","s","e","r","s">>,
     fields |-> <<fName,
                  Struct(<<"A","d","d","r">>, onA, <<mLimit(<<"5">>), mOffset(<<"6">>), fCity>>),
                  Slice(<<"K","i","d","s">>, onB, <<>>,
                        <<mLimit(<<"9">>), mOffset(<<"4">>), fToy>>)>>]
FixedShapes ==
    {whereOrder, wherePlain, allClauses, scalarsOnly, composed, composedTable,
     joinProperties, siblingJoins, pagedJoins, pagedNested}

WalkShapes == PoolShapes \cup FixedShapes

RECURSIVE HmPathsOf(_, _)
\* the positions of the has-many fields of a struct type, prefix included
HmPathsOf(fields, prefix) ==
    UNION {CASE fields[i].kind = "slice" ->
                  {prefix \o <<i>>} \cup HmPathsOf(fields[i].sub, prefix \o <<i>>)
             [] fields[i].kind \in {"struct", "embedded"} ->
                  HmPathsOf(fields[i].sub, prefix \o <<i>>)
             [] OTHER -> {} : i \in DOMAIN fields}

\* the has-many positions of a shape and the root row
HmPaths(sh) == {<<>>} \cup HmPathsOf(sh.fields, <<>>)

RECURSIVE FieldsAt(_, _)
\* the field list of the struct type found at a position of the shape
FieldsAt(fields, path) ==
    IF path = <<>> THEN fields ELSE FieldsAt(fields[Head(path)].sub, Tail(path))

\* the shapes the execution is explored on
usersFlat == [tname |-> <<"u","s","e","r","s">>, fields |-> <<fName, fCount>>]
usersJoin == [tname |-> <<"u","s","e","r","s">>, fields |-> <<mOrderBy(<<"o","1">>), fName, fAddr>>]
parentsMany == [tname |-> <<"p","a","r","e","n","t","s">>,
                fields |-> <<fName, Slice(<<"K","i","d","s">>, onB, <<>>, <<mLeftJoin, fToy>>)>>]
ownersNested == [tname |-> <<"o","w","n","e","r","s">>, fields |-> <<fPets>>]
housesPair == [tname |-> <<"h","o","u","s","e","s">>,
               fields |-> <<Slice(<<"D","o","o","r","s">>, onA, <<>>, <<fCode>>),
                            Slice(<<"R","o","o","m","s">>, onB, <<>>, <<fLabel>>)>>]
peopleFlat == [tname |-> <<"p","e","o","p","l","e">>, fields |-> <<fUserName>>]
badOne == [tname |-> <<"u","s","e","r","s">>, fields |-> <<fName, fBadOne>>]
badMany == [tname |-> <<"u","s","e","r","s">>, fields |-> <<fName, fBadMany>>]
badEmbedded == [tname |-> <<"u","s","e","r","s">>, fields |-> <<fBadEmbedded, fName>>]
badDeep == [tname |-> <<"u","s","e","r","s">>, fields |-> <<fName, fBadDeep>>]

ExecShapes ==
    {usersFlat, usersJoin, peopleFlat, parentsMany, badOne, badMany, badEmbedded, badDeep}

\* ------------------------------------------------------------------------
\* Errors
\* ------------------------------------------------------------------------
\* an error is <<>> (nil) or <<[msg, unwrap]>> with unwrap again an error
NilErr == <<>>
NewErr(msg) == <<[msg |-> msg, unwrap |-> NilErr]>>
\* fmt.Errorf(prefix + "%v", err)
ErrorfV(prefix, err) == <<[msg |-> prefix \o err[1].msg, unwrap |-> NilErr]>>
\* variant: %v in place of %w
ErrorfWNoWrap(prefix, err) == <<[msg |-> prefix \o err[1].msg, unwrap |-> NilErr]>>

\* fmt.Errorf(prefix + "%w", err)
ErrorfW(prefix, err) == <<[msg |-> prefix \o err[1].msg, unwrap |-> err]>>

\* sql.ErrNoRows
ErrNoRows == NewErr(<<"s","q","l",":"," ","n","o"," ","r","o","w","s">>)
\* an error of the driver
DriverErr == NewErr(<<"b","o","o","m">>)

pfxQuery == <<"q","u","e","r","y",":"," ">>
pfxScan == <<"s","c","a","n",":"," ">>
pfxClose == <<"c","l","o","s","e",":"," ">>

\* ------------------------------------------------------------------------
\* Calls
\* ------------------------------------------------------------------------
ArgLists == {<<>>, <<1>>}

Event(ev, q, a, err) == [ev |-> ev, sql |-> q, args |-> a, err |-> err]
Ev(ev) == Event(ev, <<>>, <<>>, NilErr)

NoReturn == [returned |-> FALSE, nil |-> TRUE, val |-> <<>>, err |-> NilErr]
Return(isNil, val, err) == [returned |-> TRUE, nil |-> isNil, val |-> val, err |-> err]

Blank ==
    /\ calls = 0
    /\ past = <<>>
    /\ op = "none"
    /\ args = <<>>
    /\ pc = "idle"
    /\ bindings = <<>>
    /\ query = [sql |-> <<>>, cols |-> <<>>]
    /\ trace = <<>>
    /\ rowsRead = 0
    /\ fed = <<>>
    /\ cursor = "none"
    /\ idents = <<>>
    /\ rows = <<>>
    /\ arrays = <<>>
    /\ results = NilSlice
    /\ visited = {}
    /\ ret = NoReturn
    /\ built = [panic |-> FALSE, stmt |-> emptyStatement, bindings |-> <<>>]
    /\ sql = <<>>

\* the handles a shape is explored with: every kind, except for the has-many
\* shape whose rows are hydrated, which takes a plain and a logging handle
ExecTx(sh) == IF sh = parentsMany THEN {"sqlDB", "queryDB"} ELSE TxKinds

Init ==
    /\ shape \in ExecShapes
    /\ tx \in ExecTx(shape)
    /\ Blank

InitWalk ==
    /\ shape \in WalkShapes
    /\ tx = "sqlDB"
    /\ Blank

\* the values rand.Int31 may give the has-many of a shape
Rands(sh) == [HmPaths(sh) -> 0..MaxRand]

\* ------------------------------------------------------------------------
\* SchemaWalker and Renderer on their own
\* ------------------------------------------------------------------------
\* prepareSet on the shape (One without has-many calls prepare at depth 0,
\* which is the same computation)
WalkPrepare ==
    /\ pc = "idle"
    /\ \E rnd \in Rands(shape) :
         /\ built' = prepareSet(shape, rnd)
         /\ pc' = IF built'.panic THEN "panic" ELSE "built"
    /\ UNCHANGED <<shape, tx, sql>>
    /\ UNCHANGED execVars

\* query.SQL()
WalkRender ==
    /\ pc = "built"
    /\ sql' = SQL(built.stmt)
    /\ pc' = "rendered"
    /\ UNCHANGED <<shape, tx, built>>
    /\ UNCHANGED execVars

NextWalk == WalkPrepare \/ WalkRender

SpecWalk == InitWalk /\ [][NextWalk]_vars

\* ------------------------------------------------------------------------
\* ExecutionCoordinator: All and One
\* ------------------------------------------------------------------------
hasLogger == hasOptionsMethods(tx) /\ OptionsLog(OptionsOf(tx))

\* the identity values a cursor row may carry
IdentVals == {NilIdent} \cup {Int64Ident(n) : n \in 1..MaxIdent}

\* the positions of the synthesized identity columns in the result set
IdentCols == {j \in DOMAIN query.cols : query.cols[j]}

\* row r of the cursor: the identity columns as chosen, every other column a
\* payload that names the row and the column
CursorRow(r, f) ==
    [j \in DOMAIN query.cols |-> IF query.cols[j] THEN f[j] ELSE <<r, j>>]

RECURSIVE ScanInto(_, _, _, _)
\* rows.Scan(bindings...): column j is stored through binding j
ScanInto(bs, vals, j, env) ==
    IF j > Len(bs) THEN env
    ELSE LET b == bs[j]
             e1 == IF b.ident
                   THEN [env EXCEPT !.idents[b.hm] = vals[j]]
                   ELSE [env EXCEPT !.rows[b.hm] = WritePath(@, b.path, vals[j])]
         IN  ScanInto(bs, vals, j + 1, e1)

\* the zero Destination / Source value as the caller sees it
ZeroDest == Deref(shape.fields, ZeroValue(shape.fields), <<>>)

\* variant: One without the check for an empty result
OneFromAllNoCheck(r) ==
    IF r.err # NilErr THEN Return(FALSE, <<ZeroDest>>, r.err)
    ELSE Return(FALSE, <<IF Len(r.val) = 0 THEN ZeroDest ELSE r.val[1]>>, NilErr)

\* the tail of One after All returned r (has-many shapes)
OneFromAll(r) ==
    IF r.err # NilErr THEN Return(FALSE, <<ZeroDest>>, r.err)
    ELSE IF Len(r.val) = 0 THEN Return(FALSE, <<ZeroDest>>, ErrNoRows)
    ELSE Return(FALSE, <<r.val[1]>>, NilErr)

\* what the call returns when All returns r
Finally(r) == IF op = "One" THEN OneFromAll(r) ELSE r

\* the calls explored on a shape and a handle, as <<operation, arguments>>:
\* every operation with every argument list, except on the has-many shapes
\* whose rows are hydrated, where the plain handle takes All without
\* arguments and the logging handle takes One with an argument
ExecCalls(sh, t) ==
    IF sh \in {parentsMany, ownersNested, housesPair}
    THEN IF t = "sqlDB" THEN {<<"All", <<>>>>} ELSE {<<"One", <<1>>>>}
    ELSE {"All", "One"} \X ArgLists

\* variant: the result slice and the visited maps of the previous call are
\* used again
callStateKept(h) == h

\* `var results []Source` and the visited maps made by prepareNestedSet: each
\* call allocates its own; the arrays of earlier calls stay on the heap
callState(h) == [arrays |-> h.arrays, results |-> NilSlice, visited |-> {}]

\* entry of All or One up to and including statement construction
Start ==
    /\ pc = "idle"
    /\ calls' = calls + 1
    /\ LET h == callState([arrays |-> arrays, results |-> results, visited |-> visited])
       IN  /\ arrays' = h.arrays
           /\ results' = h.results
           /\ visited' = h.visited
    /\ \E c \in ExecCalls(shape, tx), rnd \in Rands(shape) :
         LET o == c[1]
             a == c[2]
             p == IF o = "One" /\ ~hasMany(shape)
                  THEN prepare(shape.fields, shape.tname, 0, <<>>, <<>>, rnd)
                  ELSE prepareSet(shape, rnd)
             cols == ColumnList(p.stmt)
         IN  /\ op' = o
             /\ args' = a
             /\ IF p.panic
                THEN /\ pc' = "panic"
                     /\ UNCHANGED <<bindings, query, idents, rows>>
                ELSE /\ pc' = "log"
                     /\ bindings' = p.bindings
                     /\ query' = [sql |-> SQL(p.stmt),
                                  cols |-> [j \in DOMAIN cols |-> cols[j].as # <<>>]]
                     /\ idents' = [hm \in HmPaths(shape) |-> NilIdent]
                     /\ rows' = [hm \in HmPaths(shape) |->
                                   ZeroValue(FieldsAt(shape.fields, hm))]
    /\ UNCHANGED <<past, shape, tx, trace, rowsRead, fed, cursor, ret, built, sql>>

\* log(tx, query, args)
Log ==
    /\ pc = "log"
    /\ trace' = IF hasLogger
                THEN Append(trace, Event("Log", query.sql, args, NilErr))
                ELSE trace
    /\ pc' = "query"
    /\ UNCHANGED <<calls, past, shape, tx, op, args, bindings, query, rowsRead, fed, cursor, idents,
                   rows, arrays, results, visited, ret, built, sql>>

UsesAll == op = "All" \/ hasMany(shape)

\* tx.QueryContext fails
QueryFail ==
    /\ pc = "query" /\ UsesAll
    /\ trace' = Append(trace, Event("QueryContext", query.sql, args, DriverErr))
    /\ ret' = Finally(Return(TRUE, <<>>, ErrorfV(pfxQuery, DriverErr)))
    /\ pc' = "done"
    /\ UNCHANGED <<calls, past, shape, tx, op, args, bindings, query, rowsRead, fed, cursor, idents,
                   rows, arrays, results, visited, built, sql>>

\* tx.QueryContext returns a cursor; defer rows.Close()
QueryOk ==
    /\ pc = "query" /\ UsesAll
    /\ trace' = Append(trace, Event("QueryContext", query.sql, args, NilErr))
    /\ cursor' = "open"
    /\ pc' = "rows"
    /\ UNCHANGED <<calls, past, shape, tx, op, args, bindings, query, rowsRead, fed, idents,
                   rows, arrays, results, visited, ret, built, sql>>

\* variant: All without the deferred Close
deferCloseMissing(tr, rel) == [trace |-> tr, cursor |-> "open"]

\* defer rows.Close() taking effect at a return of All: the cursor is
\* released.  rel is the outcome of the release (returned by rows.Close, or
\* dropped inside rows.Next when the cursor was exhausted); nothing reads it
deferClose(tr, rel) ==
    [trace |-> Append(tr, Event("Close", <<>>, <<>>, rel)), cursor |-> "closed"]

\* one iteration of the loop: rows.Next() is true, Scan succeeds, complete()
RowStep(limit, vals) ==
    /\ pc = "rows" /\ rowsRead < limit
    /\ Len(query.cols) = Len(bindings)
    /\ \E f \in [IdentCols -> vals] :
         LET row == CursorRow(rowsRead + 1, f)
             env == ScanInto(bindings, row, 1, [idents |-> idents, rows |-> rows])
             h == completeSet(shape,
                              [arrays |-> arrays, results |-> results, visited |-> visited],
                              env)
         IN  /\ fed' = Append(fed, row)
             /\ idents' = env.idents
             /\ rows' = env.rows
             /\ arrays' = h.arrays
             /\ results' = h.results
             /\ visited' = h.visited
    /\ rowsRead' = rowsRead + 1
    /\ trace' = trace \o <<Ev("Next"), Ev("Scan"), Ev("complete")>>
    /\ UNCHANGED <<calls, past, shape, tx, op, args, pc, bindings, query, cursor, ret, built, sql>>

\* the loop body on a cursor of at most MaxRows rows with integer identities
RowOk == RowStep(MaxRows, IdentVals)

\* rows.Next() is true and Scan fails: return nil, "scan: %w"; the deferred
\* Close runs
ScanFail ==
    /\ pc = "rows" /\ rowsRead < MaxRows
    /\ \E rel \in {NilErr, DriverErr} :
         LET d == deferClose(trace \o <<Ev("Next"), Event("Scan", <<>>, <<>>, DriverErr)>>,
                             rel)
         IN  /\ trace' = d.trace
             /\ cursor' = d.cursor
    /\ rowsRead' = rowsRead + 1
    /\ ret' = Finally(Return(TRUE, <<>>, ErrorfW(pfxScan, DriverErr)))
    /\ pc' = "done"
    /\ UNCHANGED <<calls, past, shape, tx, op, args, bindings, query, fed, idents, rows, arrays,
                   results, visited, built, sql>>

\* rows.Next() is false and rows.Err() reports an error: return nil,
\* "close: %w"; the deferred Close runs
IterationError ==
    /\ pc = "rows"
    /\ \E rel \in {NilErr, DriverErr} :
         LET d == deferClose(trace \o <<Ev("Next"), Event("Err", <<>>, <<>>, DriverErr)>>,
                             rel)
         IN  /\ trace' = d.trace
             /\ cursor' = d.cursor
    /\ ret' = Finally(Return(TRUE, <<>>, ErrorfW(pfxClose, DriverErr)))
    /\ pc' = "done"
    /\ UNCHANGED <<calls, past, shape, tx, op, args, bindings, query, rowsRead, fed, idents, rows,
                   arrays, results, visited, built, sql>>

\* rows.Next() is false, rows.Err() is nil: the projection is applied to
\* every result and the results are returned; the deferred Close runs
Finish ==
    /\ pc = "rows"
    /\ \E rel \in {NilErr, DriverErr} :
         LET d == deferClose(trace \o <<Ev("Next"), Ev("Err")>>
                                   \o [k \in 1..results.len |-> Ev("transform")],
                             rel)
         IN  /\ trace' = d.trace
             /\ cursor' = d.cursor
    /\ ret' = Finally(Return(FALSE, DerefSlice(shape.fields, results, arrays), NilErr))
    /\ pc' = "done"
    /\ UNCHANGED <<calls, past, shape, tx, op, args, bindings, query, rowsRead, fed, idents, rows,
                   arrays, results, visited, built, sql>>

\* the calls sql.Row.Scan makes on its cursor for each outcome
RowScanEvents(out) ==
    CASE out = "queryErr" -> <<>>
      [] out = "noRows" -> <<Ev("Next"), Ev("Err"), Ev("Close")>>
      [] out = "iterErr" ->
           <<Ev("Next"), Event("Err", <<>>, <<>>, DriverErr), Ev("Close")>>
      [] out = "scanErr" ->
           <<Ev("Next"), Event("Scan", <<>>, <<>>, DriverErr), Ev("Close")>>
      [] out = "closeErr" ->
           <<Ev("Next"), Ev("Scan"), Event("Close", <<>>, <<>>, DriverErr)>>
      [] OTHER -> <<Ev("Next"), Ev("Scan"), Ev("Close")>>

\* One without has-many: tx.QueryRowContext(...).Scan(bindings...) and
\* return transform(src), err.  Row.Scan gives the query error, else
\* ErrNoRows or the cursor's error when there is no row, else the error of
\* Scan, else the error of Close.
OneQueryRow ==
    /\ pc = "query" /\ ~UsesAll
    /\ \E out \in {"queryErr", "noRows", "iterErr", "scanErr", "closeErr", "ok"} :
         LET read == out \in {"closeErr", "ok"} /\ Len(query.cols) = Len(bindings)
             row == CursorRow(1, <<>>)
             env == IF read
                    THEN ScanInto(bindings, row, 1, [idents |-> idents, rows |-> rows])
                    ELSE [idents |-> idents, rows |-> rows]
             err == CASE out = "noRows" -> ErrNoRows
                      [] out = "ok" /\ read -> NilErr
                      [] OTHER -> DriverErr
         IN  /\ trace' = (Append(trace,
                            Event("QueryRowContext", query.sql, args,
                                  IF out = "queryErr" THEN DriverErr ELSE NilErr))
                          \o RowScanEvents(out)) \o <<Ev("transform")>>
             /\ rows' = env.rows
             /\ idents' = env.idents
             /\ fed' = IF read THEN <<row>> ELSE <<>>
             /\ rowsRead' = IF out \in {"scanErr", "closeErr", "ok"} THEN 1 ELSE 0
             /\ cursor' = IF out = "queryErr" THEN "none" ELSE "closed"
             /\ ret' = Return(FALSE, <<Deref(shape.fields, env.rows[<<>>], arrays)>>, err)
    /\ pc' = "done"
    /\ UNCHANGED <<calls, past, shape, tx, op, args, bindings, query, arrays, results, visited,
                   built, sql>>

Next ==
    \/ Start
    \/ Log
    \/ QueryFail
    \/ QueryOk
    \/ RowOk
    \/ ScanFail
    \/ IterationError
    \/ Finish
    \/ OneQueryRow

Spec == Init /\ [][Next]_vars

\* ------------------------------------------------------------------------
\* Two successive calls on one handle
\* ------------------------------------------------------------------------
\* rows a cursor yields when two calls are explored
MaxCallRows == 1

\* the caller makes another call with the same shape on the same handle
NextCall ==
    /\ pc = "done" /\ calls < 2
    /\ pc' = "idle"
    /\ past' = past \o fed
    /\ trace' = <<>>
    /\ rowsRead' = 0
    /\ fed' = <<>>
    /\ cursor' = "none"
    /\ ret' = NoReturn
    /\ UNCHANGED <<calls, shape, tx, op, args, bindings, query, idents, rows, arrays,
                   results, visited, built, sql>>

\* RowOk on a cursor of at most MaxCallRows rows; the rows of the first call
\* carry the first identity or none, those of the second call any identity
RowOkShort ==
    /\ rowsRead < MaxCallRows
    /\ RowOk
    /\ calls = 1 => \A j \in IdentCols : fed'[Len(fed')][j] \in {NilIdent, Int64Ident(1)}

InitTwice ==
    /\ shape = parentsMany
    /\ tx \in ExecTx(shape)
    /\ Blank

NextTwice ==
    \/ Start
    \/ Log
    \/ QueryOk
    \/ RowOkShort
    \/ Finish
    \/ NextCall

SpecTwice == InitTwice /\ [][NextTwice]_vars

\* ------------------------------------------------------------------------
\* Properties
\* ------------------------------------------------------------------------
\* the field descriptor at a position of the shape
FieldAt(fields, abs) ==
    FieldsAt(fields, SubSeq(abs, 1, Len(abs) - 1))[abs[Len(abs)]]

\* the column the walker is to emit for the destination of a binding slot
SlotColumn(slot) ==
    IF slot.ident
    THEN [name |-> NamerIdent(<<>>), useTable |-> TRUE, ident |-> TRUE]
    ELSE LET f == FieldAt(shape.fields, slot.hm \o slot.path)
         IN  [name |-> IF f.tag = <<>> THEN NamerColumn(f.name) ELSE f.tag,
              useTable |-> f.tag = <<>>, ident |-> FALSE]

EmittedColumn(c) == [name |-> c.name, useTable |-> c.useTable, ident |-> c.as # <<>>]

\* C1: for every accepted shape the binding-slot list is as long as the
\* rendered column list and the i-th rendered column is the column of the
\* field the i-th binding slot points to.
C1_ColumnOrderIsBindingOrder ==
    pc = "built" =>
        LET cols == ColumnList(built.stmt)
        IN  /\ Len(cols) = Len(built.bindings)
            /\ \A i \in DOMAIN cols :
                   EmittedColumn(cols[i]) = SlotColumn(built.bindings[i])

RECURSIVE LacksJoinTag(_)
\* some nested single-join or has-many field, at any depth, has no tag
LacksJoinTag(fields) ==
    \E i \in DOMAIN fields :
        \/ fields[i].kind \in {"slice", "struct"} /\ fields[i].tag = <<>>
        \/ fields[i].kind \in {"slice", "struct", "embedded"} /\ LacksJoinTag(fields[i].sub)

\* C10: a shape with a nested single-join or has-many field without a join
\* predicate makes All and One fail during statement construction, before
\* the logger and the transaction are called.
C10_DeclarationErrorBeforeIO ==
    (LacksJoinTag(shape.fields) /\ pc # "idle") =>
        /\ pc = "panic"
        /\ trace = <<>>
        /\ cursor = "none"
        /\ ret = NoReturn

\* a has-many without predicate below a tagged has-many was rejected
C10_Witness ==
    /\ pc = "panic"
    /\ op = "One"
    /\ shape = badDeep

\* ---- the rows the cursor delivered, as the hydrator reads them ----------
\* a NULL identity value
IsNull(v) == v = NilIdent

\* position of a binding slot in the binding list
SlotPos(slot) == CHOOSE j \in DOMAIN bindings : bindings[j] = slot

\* the has-many fields declared directly in the root shape
ManyFields == {i \in DOMAIN shape.fields : shape.fields[i].kind = "slice"}

\* identity of the root and of the child of has-many field i in row k
RootId(k) == fed[k][SlotPos(IdentSlot(<<>>))]
ChildId(k, i) == fed[k][SlotPos(IdentSlot(<<i>>))]

\* the row whose payload an element carries
ElemRow(fields, e) ==
    e[CHOOSE f \in DOMAIN fields : fields[f].kind = "scalar"][1]

\* first row with root identity p, and the place of p among the distinct
\* non-null root identities in order of first appearance
FirstRootRow(p) ==
    CHOOSE k \in DOMAIN fed : RootId(k) = p /\ \A j \in 1..(k - 1) : RootId(j) # p
RootIndex(p) ==
    Cardinality({RootId(j) : j \in 1..FirstRootRow(p)} \ {NilIdent})

\* first row that carries child c of has-many i under root p
FirstPairRow(p, c, i) ==
    CHOOSE k \in DOMAIN fed :
        /\ RootId(k) = p /\ ChildId(k, i) = c
        /\ \A j \in 1..(k - 1) : ~(RootId(j) = p /\ ChildId(j, i) = c)

\* All on a has-many shape returned its results without error
AllManyDone ==
    /\ pc = "done" /\ op = "All" /\ hasMany(shape)
    /\ ret.returned /\ ret.err = NilErr

\* every row carries the same non-null root identity
OneRoot ==
    /\ Len(fed) >= 1
    /\ ~IsNull(RootId(1))
    /\ \A k \in DOMAIN fed : RootId(k) = RootId(1)

DistinctChildren(i) ==
    /\ \A k \in DOMAIN fed : ~IsNull(ChildId(k, i))
    /\ \A k, j \in DOMAIN fed : k # j => ChildId(k, i) # ChildId(j, i)

RepeatedChild(i) ==
    /\ ~IsNull(ChildId(1, i))
    /\ \A k \in DOMAIN fed : ChildId(k, i) = ChildId(1, i)

\* C2: K rows with one non-null root identity and K pairwise distinct
\* non-null child identities give one root element with K children in row
\* order; K rows that repeat one child identity give one root element with
\* exactly one child.
C2_FanOutCollapses ==
    (AllManyDone /\ OneRoot) =>
        \A i \in ManyFields :
            /\ DistinctChildren(i) =>
                 /\ Len(ret.val) = 1
                 /\ Len(ret.val[1][i]) = Len(fed)
                 /\ \A k \in DOMAIN fed :
                        ElemRow(shape.fields[i].sub, ret.val[1][i][k]) = k
            /\ RepeatedChild(i) =>
                 /\ Len(ret.val) = 1
                 /\ Len(ret.val[1][i]) = 1

\* MaxIdent rows of one parent, each with a different child, were hydrated
C2_Witness ==
    /\ AllManyDone /\ OneRoot
    /\ Len(fed) = MaxIdent
    /\ \E i \in ManyFields : DistinctChildren(i) /\ Len(ret.val[1][i]) = MaxIdent

\* C3: after All, each parent that co-occurred with a non-null child
\* identity in some row has that child in its collection, also when the
\* child identity appears under several parents.
C3_ChildUnderEveryParent ==
    AllManyDone =>
        \A i \in ManyFields, k \in DOMAIN fed :
            (~IsNull(RootId(k)) /\ ~IsNull(ChildId(k, i))) =>
                /\ RootIndex(RootId(k)) <= Len(ret.val)
                /\ \E n \in DOMAIN ret.val[RootIndex(RootId(k))][i] :
                       ElemRow(shape.fields[i].sub, ret.val[RootIndex(RootId(k))][i][n])
                           = FirstPairRow(RootId(k), ChildId(k, i), i)

\* the backing arrays that hold root elements
RootArrays(vis) == {e.loc.arr : e \in {x \in vis : x.hm = <<>>}}

\* the root element recorded for identity p
RootKey(p) == <<".">> \o Itoa(p.n)
RootLoc(vis, p) ==
    (CHOOSE e \in vis : e.hm = <<>> /\ e.hash = RootKey(p)).loc

\* a loop iteration of All on a has-many shape
ManyRowStep ==
    /\ pc = "rows" /\ pc' = "rows" /\ rowsRead' = rowsRead + 1
    /\ hasMany(shape)

\* C4 (per row): a null root identity changes nothing; a null child identity
\* with a non-null root creates or keeps the root element, appends nothing
\* to any collection of has-many i and records no child.
C4_RowStep ==
    ManyRowStep =>
        /\ IsNull(idents'[<<>>]) =>
             /\ arrays' = arrays /\ results' = results /\ visited' = visited
        /\ \A i \in ManyFields :
             (~IsNull(idents'[<<>>]) /\ IsNull(idents'[<<i>>])) =>
                LET p == idents'[<<>>]
                    seen == \E e \in visited : e.hm = <<>> /\ e.hash = RootKey(p)
                    h2 == [arrays |-> arrays', results |-> results', visited |-> visited']
                IN  /\ \E e \in visited' : e.hm = <<>> /\ e.hash = RootKey(p)
                    /\ results'.len = results.len + (IF seen THEN 0 ELSE 1)
                    /\ {e \in visited' : e.hm = <<i>>} = {e \in visited : e.hm = <<i>>}
                    /\ \A a \in RootArrays(visited) :
                         \A x \in 1..arrays[a].cap :
                             arrays'[a].data[x][i] = arrays[a].data[x][i]
                    /\ ~seen => ReadLoc(h2, FieldLoc(RootLoc(visited', p), i)) = NilSlice

\* C4 (result): rows with a null root identity add no element, and a parent
\* all of whose rows carry a null child identity has an empty collection.
C4_Result ==
    AllManyDone =>
        /\ Len(ret.val) = Cardinality({RootId(k) : k \in DOMAIN fed} \ {NilIdent})
        /\ \A i \in ManyFields, k \in DOMAIN fed :
             (/\ ~IsNull(RootId(k))
              /\ \A j \in DOMAIN fed : RootId(j) = RootId(k) => IsNull(ChildId(j, i)))
                => ret.val[RootIndex(RootId(k))][i] = <<>>

\* C4: a null child identity appends nothing and does not run the child's
\* completion while the parent element is created or kept, so a parent
\* without children is returned with an empty collection; a null root
\* identity adds nothing to the result.
C4_NullIdentitySkipped == [][C4_RowStep]_vars /\ []C4_Result

\* a parent whose only row has a null child came back with no children,
\* next to a row with a null root identity
C4_Witness ==
    /\ AllManyDone
    /\ Len(fed) = 2
    /\ IsNull(RootId(1))
    /\ ~IsNull(RootId(2))
    /\ \E i \in ManyFields : IsNull(ChildId(2, i)) /\ ret.val[1][i] = <<>>

\* ---- the calls made to the collaborators --------------------------------
Calls(evs) == {n \in DOMAIN trace : trace[n].ev \in evs}
Failed(evs) == {n \in Calls(evs) : trace[n].err # NilErr}

\* the query call succeeded, the cursor yielded no row and reported no error
ZeroRows ==
    /\ rowsRead = 0
    /\ Calls({"QueryContext", "QueryRowContext"}) # {}
    /\ Failed({"QueryContext", "QueryRowContext", "Err"}) = {}

\* C5: One on a query that yields zero rows returns sql.ErrNoRows, never a
\* nil error, with and without has-many.
C5_OneNotFound ==
    (pc = "done" /\ op = "One" /\ ZeroRows) =>
        /\ ret.returned
        /\ ret.err = ErrNoRows
        /\ ret.err # NilErr

\* One delegated to All, which produced an empty result
C5_Witness ==
    /\ pc = "done" /\ op = "One" /\ ZeroRows
    /\ hasMany(shape)
    /\ Calls({"QueryContext"}) # {}
    /\ ret.err = ErrNoRows

\* C6: once QueryContext returned a cursor it is closed before All returns,
\* on every exit path; if the query call fails no cursor is iterated.
C6_CursorReleased ==
    /\ cursor = "open" => pc = "rows" /\ ~ret.returned
    /\ (ret.returned /\ UsesAll) =>
          IF Failed({"QueryContext"}) = {}
          THEN /\ cursor = "closed"
               /\ trace[Len(trace)].ev = "Close"
               /\ Cardinality(Calls({"Close"})) = 1
          ELSE /\ cursor = "none"
               /\ Calls({"Next", "Scan", "Err", "Close"}) = {}

\* All returned through the scan-failure exit with the cursor closed
C6_Witness ==
    /\ pc = "done" /\ op = "All"
    /\ Failed({"Scan"}) # {}
    /\ cursor = "closed"

\* C7: if the cursor reports an error after exhaustion, or fails to release,
\* All returns a close-failed error ("close: " wrapping the cause) and no
\* results.
C7_CloseFailureReported ==
    (/\ pc = "done" /\ op = "All"
     /\ Failed({"QueryContext", "Scan"}) = {}
     /\ Failed({"Err", "Close"}) # {}) =>
        /\ ret.nil
        /\ ret.err = ErrorfW(pfxClose, DriverErr)

\* C8: when the query call fails All returns nil results and an error
\* "query: " + cause that wraps the cause; no row is scanned and the
\* projection is never invoked.
C8_QueryFailureWrapsCause ==
    (pc = "done" /\ op = "All" /\ Failed({"QueryContext"}) # {}) =>
        /\ ret.nil
        /\ ret.err # NilErr
        /\ ret.err[1].msg = pfxQuery \o DriverErr[1].msg
        /\ ret.err[1].unwrap = DriverErr
        /\ Calls({"Scan", "complete", "transform"}) = {}

\* C9: when scanning row i fails All returns at once with "scan: " wrapping
\* the cause and nil results: no later row is read, the completion is not
\* run for row i and the projection is not applied.
C9_ScanFailureStops ==
    (pc = "done" /\ op = "All" /\ Failed({"Scan"}) # {}) =>
        LET n == CHOOSE m \in Failed({"Scan"}) : TRUE
        IN  /\ ret.nil /\ ret.val = <<>>
            /\ ret.err # NilErr
            /\ ret.err[1].msg = pfxScan \o DriverErr[1].msg
            /\ ret.err[1].unwrap = DriverErr
            /\ Cardinality(Failed({"Scan"})) = 1
            /\ \A m \in (n + 1)..Len(trace) : trace[m].ev = "Close"
            /\ Cardinality(Calls({"complete"})) = rowsRead - 1
            /\ Cardinality(Calls({"Next"})) = rowsRead
            /\ Calls({"transform"}) = {}

\* the last row of the cursor failed to scan after the rows before it were
\* hydrated
C9_Witness ==
    /\ pc = "done" /\ op = "All"
    /\ Failed({"Scan"}) # {}
    /\ rowsRead = MaxRows
    /\ results.len = MaxRows - 1
    /\ ret.nil

\* ---- what a call returns, from the rows and failures of its cursor -------
RECURSIVE HydrateRows(_, _, _, _)
\* the heap after rows k.. of the delivered rows were scanned into the
\* bindings bs and completed, one after the other
HydrateRows(bs, k, h, env) ==
    IF k > Len(fed) THEN h
    ELSE LET e == ScanInto(bs, fed[k], 1, env)
         IN  HydrateRows(bs, k + 1, completeSet(shape, h, e), e)

\* the row values before the first Scan
FreshEnv ==
    [idents |-> [hm \in HmPaths(shape) |-> NilIdent],
     rows |-> [hm \in HmPaths(shape) |-> ZeroValue(FieldsAt(shape.fields, hm))]]

\* what All returns for the delivered rows, scanned through the bindings of
\* the call into a fresh result, and the failures of the query call, of Scan
\* and of Err; a failure to release the cursor plays no part
AllOutcome ==
    LET h == HydrateRows(bindings, 1,
                         [arrays |-> <<>>, results |-> NilSlice, visited |-> {}],
                         FreshEnv)
    IN  CASE Failed({"QueryContext", "QueryRowContext"}) # {} ->
               Return(TRUE, <<>>, ErrorfV(pfxQuery, DriverErr))
          [] Failed({"Scan"}) # {} -> Return(TRUE, <<>>, ErrorfW(pfxScan, DriverErr))
          [] Failed({"Err"}) # {} -> Return(TRUE, <<>>, ErrorfW(pfxClose, DriverErr))
          [] OTHER -> Return(FALSE, DerefSlice(shape.fields, h.results, h.arrays), NilErr)

\* what One returns when it scans a single row itself
RowOutcome ==
    LET val == IF fed = <<>> THEN ZeroDest
               ELSE Deref(shape.fields,
                          ScanInto(bindings, fed[1], 1, FreshEnv).rows[<<>>], <<>>)
        err == CASE Failed({"QueryRowContext", "Scan", "Err", "Close"}) # {} -> DriverErr
                 [] Calls({"Scan"}) = {} -> ErrNoRows
                 [] OTHER -> NilErr
    IN  Return(FALSE, <<val>>, err)

\* what One returns from what All returned
OneOutcome ==
    IF ~hasMany(shape) THEN RowOutcome
    ELSE LET all == AllOutcome
         IN  IF all.err # NilErr THEN Return(FALSE, <<ZeroDest>>, all.err)
             ELSE IF all.val = <<>> THEN Return(FALSE, <<ZeroDest>>, ErrNoRows)
             ELSE Return(FALSE, <<all.val[1]>>, NilErr)

\* the handle carries Options with a Logger
LoggerGiven == tx = "queryDB"

\* the call went past the logging step
PastLog == pc \in {"query", "rows", "done"}

\* C11 (trace): with a Logger the call logs exactly once, first of all, the
\* SQL text and the arguments the transaction then receives; without one
\* nothing is logged.
C11_LogRecord ==
    PastLog =>
        /\ IF LoggerGiven
           THEN /\ Calls({"Log"}) = {1}
                /\ trace[1].args = args
                /\ trace[1].sql # <<>>
                /\ \A n \in Calls({"QueryContext", "QueryRowContext"}) :
                       /\ n > 1
                       /\ trace[n].sql = trace[1].sql
                       /\ trace[n].args = trace[1].args
           ELSE Calls({"Log"}) = {}
        /\ pc = "done" => Cardinality(Calls({"QueryContext", "QueryRowContext"})) = 1

\* C11 (result): what the call returns is a function of the shape, the rows
\* and the failures of the cursor alone.
C11_ResultIgnoresLogger ==
    pc = "done" => ret = IF op = "All" THEN AllOutcome ELSE OneOutcome

\* C11: each call that reaches the transaction invokes the logger exactly
\* once, before the query, with the SQL text and the arguments passed to the
\* transaction, also when One delegates to All and when the query fails; a
\* missing logger or nil Options changes nothing in the result.
C11_LoggerOncePerCall == C11_LogRecord /\ C11_ResultIgnoresLogger

\* One delegated to All on a logging handle and the query failed
C11_Witness ==
    /\ pc = "done" /\ op = "One" /\ hasMany(shape)
    /\ LoggerGiven
    /\ Failed({"QueryContext"}) # {}
    /\ Calls({"Log"}) = {1}

\* C12: whenever All returns a non-empty result without error for the rows
\* and failures of the cursor, One returns without error the first element
\* of that result.
C12_OneIsFirstOfAll ==
    (/\ pc = "done" /\ op = "One"
     /\ AllOutcome.err = NilErr
     /\ AllOutcome.val # <<>>) =>
        /\ ret.err = NilErr
        /\ ret.val = <<AllOutcome.val[1]>>

\* C13: when the query call of the transaction fails, One returns the
\* transaction's error itself, with and without has-many.
C13_OneErrorUnchanged ==
    (/\ pc = "done" /\ op = "One"
     /\ Failed({"QueryContext", "QueryRowContext"}) # {}) =>
        ret.err = DriverErr

\* ---- the declaration of a shape, read field by field --------------------
\* the tags of the markers of one kind declared directly in a field list, in
\* declaration order
RECURSIVE TagsOf(_, _)
TagsOf(fields, kind) ==
    IF fields = <<>> THEN <<>>
    ELSE (IF Head(fields).kind = kind THEN <<Head(fields).tag>> ELSE <<>>)
         \o TagsOf(Tail(fields), kind)

Last(seq) == seq[Len(seq)]

\* the fields of one of several kinds declared directly in a field list
RECURSIVE FieldsOf(_, _)
FieldsOf(fields, kinds) ==
    IF fields = <<>> THEN <<>>
    ELSE (IF Head(fields).kind \in kinds THEN <<Head(fields)>> ELSE <<>>)
         \o FieldsOf(Tail(fields), kinds)

EmbeddedFields == FieldsOf(shape.fields, {"embedded"})

\* the column a scalar field is declared to give
DeclaredColumn(f) ==
    IF f.tag = <<>> THEN [name |-> underscore(f.name), useTable |-> TRUE]
    ELSE [name |-> f.tag, useTable |-> FALSE]

OwnColumns(st) == {[name |-> c.name, useTable |-> c.useTable] : c \in Range(st.columns)}

\* number of join fields declared in the shape itself and in its embedded
\* shapes
RECURSIVE CountJoins(_)
CountJoins(fields) ==
    IF fields = <<>> THEN 0
    ELSE (CASE Head(fields).kind \in {"struct", "slice"} -> 1
            [] Head(fields).kind = "embedded" -> CountJoins(Head(fields).sub)
            [] OTHER -> 0)
         + CountJoins(Tail(fields))

\* C14 (list markers and columns): conditions, group-by and order-by of an
\* embedded shape are in the composing statement's own lists, its columns are
\* own columns of the statement, and the embedding adds no join.
C14_EmbeddedLists ==
    pc = "built" =>
        /\ \A k \in DOMAIN EmbeddedFields :
             LET e == EmbeddedFields[k].sub
             IN  /\ Range(TagsOf(e, "Conditions")) \subseteq Range(built.stmt.conditions)
                 /\ Range(TagsOf(e, "GroupBy")) \subseteq Range(built.stmt.group)
                 /\ Range(TagsOf(e, "OrderBy")) \subseteq Range(built.stmt.order)
                 /\ \A j \in DOMAIN e :
                        e[j].kind = "scalar" =>
                            DeclaredColumn(e[j]) \in OwnColumns(built.stmt)
        /\ Len(built.stmt.joins) = CountJoins(shape.fields)

\* C14 (single markers): the table, limit and offset of the only embedded
\* shape that declares one are those of the statement when the composing
\* shape declares none itself.
C14_EmbeddedSingles ==
    pc = "built" =>
        \A k \in DOMAIN EmbeddedFields :
            LET e == EmbeddedFields[k].sub
                only(kind) ==
                    /\ TagsOf(e, kind) # <<>>
                    /\ TagsOf(shape.fields, kind) = <<>>
                    /\ \A j \in DOMAIN EmbeddedFields :
                           j # k => TagsOf(EmbeddedFields[j].sub, kind) = <<>>
            IN  /\ only("Table") => built.stmt.table = Last(TagsOf(e, "Table"))
                /\ only("Limit") => built.stmt.limit = Last(TagsOf(e, "Limit"))
                /\ only("Offset") => built.stmt.offset = Last(TagsOf(e, "Offset"))

\* C14: every marker (table, conditions, group-by, order-by, limit, offset)
\* and every column declared in an embedded shape takes effect in the
\* composing shape's own statement, in the same table scope and without a
\* join.
C14_EmbeddedTakesEffect == C14_EmbeddedLists /\ C14_EmbeddedSingles

\* the first embedded shape that declares a table, if any
EmbeddedTables ==
    {k \in DOMAIN EmbeddedFields : TagsOf(EmbeddedFields[k].sub, "Table") # <<>>}
FirstEmbeddedTable ==
    Last(TagsOf(EmbeddedFields[CHOOSE k \in EmbeddedTables :
                                   \A j \in EmbeddedTables : k <= j].sub, "Table"))

userAccount == <<"U","s","e","r","A","c","c","o","u","n","t">>
user_account == <<"u","s","e","r","_","a","c","c","o","u","n","t">>

\* the snake_case form of the type names of the shapes
SnakeTypeName == IF shape.tname = userAccount THEN user_account ELSE shape.tname

\* C15: the root table is the snake_case type name when no table marker
\* applies; a table marker of the shape itself wins over the derived name and
\* over an embedded shape's marker, declared before or after it; an embedded
\* shape's table marker wins over the derived name.
C15_RootTable ==
    pc = "built" =>
        built.stmt.table =
            IF TagsOf(shape.fields, "Table") # <<>> THEN Last(TagsOf(shape.fields, "Table"))
            ELSE IF EmbeddedTables # {} THEN FirstEmbeddedTable
            ELSE SnakeTypeName

\* the shape's own table marker prevailed over that of an embedded shape
\* declared before it
C15_Witness ==
    /\ pc = "built"
    /\ shape = composedTable
    /\ built.stmt.table = <<"t","1">>

\* ---- rendered text -------------------------------------------------------
RECURSIVE Concat(_)
Concat(texts) == IF texts = <<>> THEN <<>> ELSE Head(texts) \o Concat(Tail(texts))

RECURSIVE Separated(_, _)
\* the texts with sep between them
Separated(texts, sep) ==
    IF texts = <<>> THEN <<>>
    ELSE IF Len(texts) = 1 THEN texts[1]
    ELSE texts[1] \o sep \o Separated(Tail(texts), sep)

\* the positions at which pat occurs in text
Occurs(pat, text) ==
    {q \in 1..(Len(text) - Len(pat) + 1) : \A k \in 1..Len(pat) : text[q + k - 1] = pat[k]}

kwSelect == <<"S","E","L","E","C","T"," ">>
kwFrom == <<" ","F","R","O","M"," ">>
kwJoin == <<" ","J","O","I","N"," ">>
kwInner == <<" ","I","N","N","E","R"," ","J","O","I","N"," ">>
kwLeft == <<" ","L","E","F","T"," ","J","O","I","N"," ">>
kwOn == <<" ","O","N"," ">>
kwWhere == <<" ","W","H","E","R","E"," ">>
kwGroup == <<" ","G","R","O","U","P"," ","B","Y"," ">>
kwOrder == <<" ","O","R","D","E","R"," ","B","Y"," ">>
kwLimit == <<" ","L","I","M","I","T"," ">>
kwOffset == <<" ","O","F","F","S","E","T"," ">>

ScalarsOnly == \A i \in DOMAIN shape.fields : shape.fields[i].kind = "scalar"

\* the text of the column a scalar field is declared to give
ColumnText(f) ==
    IF f.tag = <<>> THEN SnakeTypeName \o <<".">> \o underscore(f.name) ELSE f.tag

\* C16: a shape of scalar fields only renders "SELECT <cols> FROM <table>",
\* one column per field in declaration order: the table-qualified
\* snake_case name of an untagged field, the tag of a tagged one.
C16_ScalarSelect ==
    (pc = "rendered" /\ ScalarsOnly) =>
        /\ sql = kwSelect
                 \o Separated([i \in DOMAIN shape.fields |-> ColumnText(shape.fields[i])],
                              <<",", " ">>)
                 \o kwFrom \o SnakeTypeName
        /\ shape = scalarsOnly =>
             sql = kwSelect
                   \o <<"u","s","e","r","_","a","c","c","o","u","n","t",".",
                        "u","s","e","r","_","i","d",",", " ",
                        "C","O","U","N","T","(","*",")",",", " ",
                        "u","s","e","r","_","a","c","c","o","u","n","t",".","n","a","m","e",
                        ",", " ","g",".","l","a","t">>
                   \o kwFrom \o user_account

\* the shape of four scalar fields, two of them tagged, was rendered
C16_Witness ==
    /\ pc = "rendered"
    /\ shape = scalarsOnly
    /\ Len(sql) > Len(kwSelect)

\* some statement of the tree declares an expression of the list
RECURSIVE AnyIn(_, _)
AnyIn(st, list) ==
    \/ st[list] # <<>>
    \/ \E k \in DOMAIN st.joins : AnyIn(st.joins[k], list)

\* the clause keywords in the order they are to appear, each with whether
\* the statement has the clause
Clauses(st) ==
    <<[kw |-> kwFrom, has |-> TRUE],
      [kw |-> kwJoin, has |-> st.joins # <<>>],
      [kw |-> kwWhere, has |-> AnyIn(st, "conditions")],
      [kw |-> kwGroup, has |-> AnyIn(st, "group")],
      [kw |-> kwOrder, has |-> AnyIn(st, "order")],
      [kw |-> kwLimit, has |-> st.limit # <<>>],
      [kw |-> kwOffset, has |-> st.offset # <<>>]>>

Min(S) == CHOOSE x \in S : \A y \in S : x <= y
Max(S) == CHOOSE x \in S : \A y \in S : x >= y

sampleClauses == kwWhere \o <<"(">> \o condName \o <<")">> \o kwOrder \o orderName

\* C17: the rendered text starts with SELECT; FROM, the joins, WHERE,
\* GROUP BY, ORDER BY, LIMIT and OFFSET follow in this order; the keyword of
\* an absent clause does not occur and that of a present one occurs once
\* (JOIN once per join); condition "name = ?" with order "name ASC" gives
\* " WHERE (name = ?) ORDER BY name ASC" after the joins and before LIMIT.
C17_ClauseOrder ==
    pc = "rendered" =>
        LET cl == Clauses(built.stmt)
            at == <<Occurs(cl[1].kw, sql), Occurs(cl[2].kw, sql), Occurs(cl[3].kw, sql),
                    Occurs(cl[4].kw, sql), Occurs(cl[5].kw, sql), Occurs(cl[6].kw, sql),
                    Occurs(cl[7].kw, sql)>>
        IN  /\ SubSeq(sql, 1, Len(kwSelect)) = kwSelect
            /\ \A a \in DOMAIN cl :
                 /\ cl[a].has <=> at[a] # {}
                 /\ cl[a].kw # kwJoin => Cardinality(at[a]) <= 1
            /\ \A a \in DOMAIN cl : \A b \in DOMAIN cl :
                 (a < b /\ cl[a].has /\ cl[b].has) => Max(at[a]) < Min(at[b])
            /\ shape \in {whereOrder, wherePlain} =>
                 LET sample == Occurs(sampleClauses, sql)
                 IN  /\ Cardinality(sample) = 1
                     /\ \A q \in Occurs(kwOn, sql) : q < Min(sample)
                     /\ \A q \in Occurs(kwLimit, sql) \cup Occurs(kwOffset, sql) :
                            q >= Min(sample) + Len(sampleClauses)

\* a shape with every clause and two joins was rendered
C17_Witness ==
    /\ pc = "rendered"
    /\ shape = allClauses
    /\ \A a \in DOMAIN Clauses(built.stmt) : Clauses(built.stmt)[a].has

\* the table a join field is declared to join: its own table marker, else the
\* snake_case name of the field
ChildTable(f) ==
    IF TagsOf(f.sub, "Table") # <<>> THEN Last(TagsOf(f.sub, "Table"))
    ELSE underscore(f.name)

RECURSIVE JoinClause(_)
\* the text a join field is declared to give, its nested joins right after it
JoinClause(f) ==
    (IF TagsOf(f.sub, "LeftJoin") # <<>> THEN kwLeft ELSE kwInner)
    \o ChildTable(f) \o kwOn \o f.tag
    \o Concat([k \in DOMAIN FieldsOf(f.sub, {"struct", "slice"}) |->
                 JoinClause(FieldsOf(f.sub, {"struct", "slice"})[k])])

JoinFields == FieldsOf(shape.fields, {"struct", "slice"})

\* C18: a nested single join or has-many with predicate P renders
\* " INNER JOIN <childtable> ON P", LEFT in place of INNER when the nested
\* shape declares the left-join marker; <childtable> is the snake_case field
\* name unless the nested shape declares a table; the join's own nested
\* joins follow it immediately.
C18_JoinClause ==
    pc = "rendered" =>
        \A k \in DOMAIN JoinFields : Occurs(JoinClause(JoinFields[k]), sql) # {}

\* ---- the namer of a call ---------------------------------------------------
\* the handle carries Options with a Namer
NamerGiven == tx = "namerDB"

selectPeopleDefault ==
    kwSelect \o <<"p","e","o","p","l","e",".","u","s","e","r","_","n","a","m","e">>
    \o kwFrom \o <<"p","e","o","p","l","e">>
selectPeopleTest ==
    kwSelect \o <<"u","s","e","r","s",".","n","a","m","e">>
    \o kwFrom \o <<"u","s","e","r","s">>

\* the text of a column of a scalar field under the namer the handle gives
NamedColumnText(f) ==
    IF f.tag # <<>> THEN f.tag
    ELSE IF NamerGiven THEN <<"u","s","e","r","s",".","n","a","m","e">>
    ELSE underscore(shape.tname) \o <<".">> \o underscore(f.name)

\* C19: the names in the query are those of the transaction's namer when it
\* provides one (table "users", column "name"), and those of the default
\* namer (snake_case) when the transaction has no NameWith method, its
\* Options are nil, or its Options carry no Namer.
C19_NamerOfCall ==
    (PastLog /\ ScalarsOnly) =>
        LET q == trace[Min(Calls({"QueryContext", "QueryRowContext"}))].sql
        IN  /\ Calls({"QueryContext", "QueryRowContext"}) # {} =>
                 q = kwSelect
                     \o Separated([i \in DOMAIN shape.fields |->
                                     NamedColumnText(shape.fields[i])], <<",", " ">>)
                     \o kwFrom
                     \o (IF NamerGiven THEN <<"u","s","e","r","s">>
                         ELSE underscore(shape.tname))
            /\ (shape = peopleFlat /\ pc = "done") =>
                 q = IF NamerGiven THEN selectPeopleTest ELSE selectPeopleDefault

\* One on `people` with the test namer read its row
C19_Witness ==
    /\ pc = "done" /\ op = "One"
    /\ shape = peopleFlat
    /\ NamerGiven
    /\ ret.err = NilErr
    /\ trace[1].sql = selectPeopleTest

\* ---- two successive calls -------------------------------------------------
\* C20: the second of two successive calls with a has-many shape starts
\* with no result element and no dedup key, and returns what a first call
\* returns on the same rows.
C20_DedupPerCall ==
    calls = 2 =>
        /\ (pc \in {"log", "query"} \/ (pc = "rows" /\ rowsRead = 0)) =>
             /\ visited = {}
             /\ results = NilSlice
        /\ pc = "done" => ret = IF op = "All" THEN AllOutcome ELSE OneOutcome

\* both calls got one row with the same parent and child identity, and the
\* second returned that parent with its child
C20_Witness ==
    /\ calls = 2 /\ pc = "done" /\ op = "All"
    /\ Len(past) = 1 /\ Len(fed) = 1
    /\ ~IsNull(RootId(1))
    /\ \A j \in IdentCols : past[1][j] = fed[1][j] /\ ~IsNull(fed[1][j])
    /\ Len(ret.val) = 1
    /\ \E i \in ManyFields : Len(ret.val[1][i]) = 1

\* ---- rows in any order ----------------------------------------------------
\* row k carries a root identity that was seen before and that comes back
\* after a row of another root identity
RootReappears(k) ==
    /\ ~IsNull(RootId(k))
    /\ \E j \in 1..(k - 1) :
          /\ RootId(j) = RootId(k)
          /\ \E m \in (j + 1)..(k - 1) : ~IsNull(RootId(m)) /\ RootId(m) # RootId(k)

\* C21: when a root identity reappears after rows of other root identities,
\* no second root element is created for it and the child the row carries is
\* in the collection of that root element in the result of All.
C21_RootReusedInAnyOrder ==
    AllManyDone =>
        \A k \in DOMAIN fed :
            RootReappears(k) =>
                /\ Len(ret.val) = Cardinality({RootId(j) : j \in DOMAIN fed} \ {NilIdent})
                /\ \A i \in ManyFields :
                     ~IsNull(ChildId(k, i)) =>
                        \E n \in DOMAIN ret.val[RootIndex(RootId(k))][i] :
                            ElemRow(shape.fields[i].sub, ret.val[RootIndex(RootId(k))][i][n])
                                = FirstPairRow(RootId(k), ChildId(k, i), i)

\* ---- a has-many inside a has-many -----------------------------------------
\* All on owners { Pets []Pet { Nick; Tags []struct { Label } } }, every row
\* of the one owner 1
InitNested ==
    /\ shape = ownersNested
    /\ tx = "sqlDB"
    /\ Blank

RowOkNested ==
    /\ RowStep(MaxRows, IdentVals)
    /\ idents'[<<>>] = Int64Ident(1)

NextNested ==
    \/ Start
    \/ Log
    \/ QueryOk
    \/ RowOkNested
    \/ Finish

SpecNested == InitNested /\ [][NextNested]_vars

\* identity of the element of the has-many at position hm in row k
IdAt(k, hm) == fed[k][SlotPos(IdentSlot(hm))]

\* the positions of Pets and of Tags in ownersNested
hmPets == <<1>>
hmTags == <<1, 2>>

\* the rows that carry a child and a grandchild
FullRows == {k \in DOMAIN fed : ~IsNull(IdAt(k, hmPets)) /\ ~IsNull(IdAt(k, hmTags))}

\* the places <<n, t>> of the returned graph, tag t of pet n of the owner,
\* that hold child c with grandchild g
TriplePlaces(c, g) ==
    {x \in {<<n, t>> : n \in DOMAIN ret.val[1][1], t \in 1..MaxRows} :
        /\ x[2] \in DOMAIN ret.val[1][1][x[1]][2]
        /\ IdAt(ElemRow(FieldsAt(shape.fields, hmPets), ret.val[1][1][x[1]]), hmPets) = c
        /\ IdAt(ElemRow(FieldsAt(shape.fields, hmTags), ret.val[1][1][x[1]][2][x[2]]),
                hmTags) = g}

\* C22: with a has-many inside a has-many, a child identity that reappears
\* after other children of the same parent takes the grandchild of that row
\* under the recorded child element: after All every (parent, child,
\* grandchild) identity triple of the rows is exactly once in the result.
C22_GrandchildUnderRecordedChild ==
    (AllManyDone /\ shape = ownersNested /\ fed # <<>>) =>
        /\ Len(ret.val) = 1
        /\ Len(ret.val[1][1])
             = Cardinality({IdAt(k, hmPets) : k \in DOMAIN fed} \ {NilIdent})
        /\ \A k \in FullRows :
               Cardinality(TriplePlaces(IdAt(k, hmPets), IdAt(k, hmTags))) = 1

\* ---- two has-many side by side --------------------------------------------
\* All on houses { Doors []struct { Code }; Rooms []struct { Label } }: every
\* row of the one house 1 with a door and a room, no pair of them twice
InitPair ==
    /\ shape = housesPair
    /\ tx = "sqlDB"
    /\ Blank

\* the positions of Doors and of Rooms in housesPair
hmDoors == <<1>>
hmRooms == <<2>>

\* the identities of the has-many at hm in the rows read
IdsAt(hm) == {IdAt(k, hm) : k \in DOMAIN fed}

RowOkPair ==
    /\ RowStep(MaxRows + 1, IdentVals \ {NilIdent})
    /\ idents'[<<>>] = Int64Ident(1)
    /\ \A k \in DOMAIN fed :
           ~(/\ IdAt(k, hmDoors) = idents'[hmDoors]
             /\ IdAt(k, hmRooms) = idents'[hmRooms])

NextPair ==
    \/ Start
    \/ Log
    \/ QueryOk
    \/ RowOkPair
    \/ Finish

SpecPair == InitPair /\ [][NextPair]_vars

\* first row that carries identity v of the has-many at hm
FirstRowOf(hm, v) ==
    CHOOSE k \in DOMAIN fed : IdAt(k, hm) = v /\ \A j \in 1..(k - 1) : IdAt(j, hm) # v

\* the rows are the cross product of the identities of the two relationships
CrossProduct ==
    /\ fed # <<>>
    /\ \A d \in IdsAt(hmDoors), r \in IdsAt(hmRooms) :
           \E k \in DOMAIN fed : IdAt(k, hmDoors) = d /\ IdAt(k, hmRooms) = r

\* the collection of has-many field i of the parent holds one element for
\* each identity of the rows, in order of first appearance
InFirstAppearanceOrder(i) ==
    LET col == ret.val[1][i]
        rowOf(n) == ElemRow(shape.fields[i].sub, col[n])
    IN  /\ Len(col) = Cardinality(IdsAt(<<i>>))
        /\ \A n \in DOMAIN col : rowOf(n) = FirstRowOf(<<i>>, IdAt(rowOf(n), <<i>>))
        /\ \A n, m \in DOMAIN col : n < m => rowOf(n) < rowOf(m)

\* C29: two has-many declared side by side are deduplicated independently:
\* for rows that are the cross product of m identities of the first and n of
\* the second under one parent, the parent has exactly m elements in the
\* first collection and n in the second, each in first-appearance order.
C29_SiblingsIndependent ==
    (AllManyDone /\ shape = housesPair /\ CrossProduct) =>
        /\ Len(ret.val) = 1
        /\ \A i \in ManyFields : InFirstAppearanceOrder(i)

\* the four rows of two doors and two rooms gave two doors and two rooms
C29_Witness ==
    /\ AllManyDone /\ shape = housesPair /\ CrossProduct
    /\ Len(fed) = 4
    /\ Cardinality(IdsAt(hmDoors)) = 2 /\ Cardinality(IdsAt(hmRooms)) = 2
    /\ Len(ret.val[1][1]) = 2 /\ Len(ret.val[1][2]) = 2

\* ---- a row that repeats an identity chain ---------------------------------
\* the scalar fields of a struct type
ScalarFields(fields) == {f \in DOMAIN fields : fields[f].kind = "scalar"}

\* the element recorded for child c of has-many i under root p, if any
ChildSeen(vis, i, p, c) ==
    {e \in vis : e.hm = <<i>> /\ e.hash = Hash(<<asString(c), asString(p)>>)}

\* C30 (per row): a row whose root identity was seen leaves the result slice
\* and the scalar fields of every root element as they are; a row whose
\* (root, child) chain was seen leaves the collection that holds the child
\* and the child element as they are.
C30_RowStep ==
    ManyRowStep =>
        LET p == idents'[<<>>]
        IN  (~IsNull(p) /\ \E e \in visited : e.hm = <<>> /\ e.hash = RootKey(p)) =>
               /\ results' = results
               /\ {e \in visited' : e.hm = <<>>} = {e \in visited : e.hm = <<>>}
               /\ \A a \in RootArrays(visited), f \in ScalarFields(shape.fields) :
                     \A x \in 1..arrays[a].cap :
                         arrays'[a].data[x][f] = arrays[a].data[x][f]
               /\ \A i \in ManyFields :
                     LET seen == ChildSeen(visited, i, p, idents'[<<i>>])
                     IN  (~IsNull(idents'[<<i>>]) /\ seen # {}) =>
                            /\ ChildSeen(visited', i, p, idents'[<<i>>]) = seen
                            /\ \A a \in RootArrays(visited) :
                                   \A x \in 1..arrays[a].cap :
                                       arrays'[a].data[x][i] = arrays[a].data[x][i]
                            /\ \A e \in seen :
                                   arrays'[e.loc.arr].data[e.loc.idx]
                                       = arrays[e.loc.arr].data[e.loc.idx]

\* C30 (result): every root element and every child All returns carries the
\* values of the first row of its identity chain.
C30_Result ==
    AllManyDone =>
        /\ \A n \in DOMAIN ret.val :
               LET r == ElemRow(shape.fields, ret.val[n])
               IN  FirstRootRow(RootId(r)) = r
        /\ \A n \in DOMAIN ret.val, i \in ManyFields, m \in 1..MaxRows :
               m \in DOMAIN ret.val[n][i] =>
                   LET r == ElemRow(shape.fields[i].sub, ret.val[n][i][m])
                   IN  FirstPairRow(RootId(r), ChildId(r, i), i) = r

\* C30: a row that repeats an identity chain already seen leaves the scalar
\* fields of the recorded element (the values of the first row) and the
\* length of the collection that holds it unchanged; only has-many
\* collections below the element may grow.
C30_RepeatedChainKeepsElement == [][C30_RowStep]_vars /\ []C30_Result

\* two rows with the same parent and the same child gave one parent with one
\* child, both with the values of row 1
C30_Witness ==
    /\ AllManyDone
    /\ Len(fed) = 2
    /\ ~IsNull(RootId(1)) /\ RootId(2) = RootId(1)
    /\ Len(ret.val) = 1
    /\ ElemRow(shape.fields, ret.val[1]) = 1
    /\ \E i \in ManyFields :
          /\ ~IsNull(ChildId(1, i)) /\ ChildId(2, i) = ChildId(1, i)
          /\ Len(ret.val[1][i]) = 1
          /\ ElemRow(shape.fields[i].sub, ret.val[1][i][1]) = 1

\* ---- the clauses gathered over the statement tree ------------------------
RECURSIVE Preorder(_, _)
\* the expressions of one list of the statement tree, depth-first preorder
Preorder(st, list) ==
    st[list] \o Concat([k \in DOMAIN st.joins |-> Preorder(st.joins[k], list)])

RECURSIVE Sum(_)
Sum(ns) == IF ns = <<>> THEN 0 ELSE Head(ns) + Sum(Tail(ns))

RECURSIVE StatementsWith(_, _)
\* the number of statements of the tree that declare an expression of the list
StatementsWith(st, list) ==
    (IF st[list] # <<>> THEN 1 ELSE 0)
    + Sum([k \in DOMAIN st.joins |-> StatementsWith(st.joins[k], list)])

\* the rendered text has the clause kw with the given body once, followed by
\* one of the later clauses or by nothing
ClauseIs(kw, body, later) ==
    /\ Cardinality(Occurs(kw, sql)) = 1
    /\ \E q \in Occurs(kw \o body, sql) :
          LET e == q + Len(kw) + Len(body)
          IN  \/ e = Len(sql) + 1
              \/ \E nx \in later : SubSeq(sql, e, e + Len(nx) - 1) = nx

kwAnd == <<" ","A","N","D"," ">>
commaSpace == <<",", " ">>

\* C23: with a condition anywhere in the statement tree the WHERE clause is
\* the conditions of the tree in depth-first preorder, each in parentheses,
\* with one " AND " between two adjacent ones; with none, WHERE is omitted.
C23_WhereClause ==
    pc = "rendered" =>
        LET conds == Preorder(built.stmt, "conditions")
        IN  IF conds = <<>> THEN Occurs(kwWhere, sql) = {}
            ELSE ClauseIs(kwWhere,
                          Separated([i \in DOMAIN conds |-> <<"(">> \o conds[i] \o <<")">>],
                                    kwAnd),
                          {kwGroup, kwOrder, kwLimit, kwOffset})

\* the same for statement trees whose conditions are all declared in one
\* statement
C23_OneStatement ==
    StatementsWith(built.stmt, "conditions") <= 1 => C23_WhereClause

\* C24: with a group (order) expression anywhere in the statement tree the
\* GROUP BY (ORDER BY) clause is the expressions of the tree in depth-first
\* preorder separated by ", ", nothing before the first and after the last,
\* also when only a nested join declares them; with none, it is omitted.
C24_GroupOrderClauses ==
    pc = "rendered" =>
        LET group == Preorder(built.stmt, "group")
            order == Preorder(built.stmt, "order")
        IN  /\ IF group = <<>> THEN Occurs(kwGroup, sql) = {}
               ELSE ClauseIs(kwGroup, Separated(group, commaSpace),
                             {kwOrder, kwLimit, kwOffset})
            /\ IF order = <<>> THEN Occurs(kwOrder, sql) = {}
               ELSE ClauseIs(kwOrder, Separated(order, commaSpace), {kwLimit, kwOffset})

\* the same for statement trees whose root declares a group and an order
\* expression, or that declare none
C24_RootDeclares ==
    (/\ built.stmt.group = <<>> => Preorder(built.stmt, "group") = <<>>
     /\ built.stmt.order = <<>> => Preorder(built.stmt, "order") = <<>>)
    => C24_GroupOrderClauses

\* ---- limit and offset ------------------------------------------------------
RECURSIVE NestedTags(_, _)
\* the tags of the markers of a kind declared inside the single joins and
\* has-many of a field list, at any depth
NestedTags(fields, kind) ==
    UNION {IF fields[i].kind \in {"struct", "slice"}
           THEN Range(TagsOf(fields[i].sub, kind)) \cup NestedTags(fields[i].sub, kind)
           ELSE IF fields[i].kind = "embedded" THEN NestedTags(fields[i].sub, kind)
           ELSE {} : i \in DOMAIN fields}

\* the limit and the offset the root shape declares itself
OwnLimit == IF TagsOf(shape.fields, "Limit") = <<>> THEN <<>>
            ELSE Last(TagsOf(shape.fields, "Limit"))
OwnOffset == IF TagsOf(shape.fields, "Offset") = <<>> THEN <<>>
             ELSE Last(TagsOf(shape.fields, "Offset"))

\* text is the end of the rendered text
EndsWith(text) ==
    /\ Len(text) <= Len(sql)
    /\ SubSeq(sql, Len(sql) - Len(text) + 1, Len(sql)) = text

\* C25: only the limit and offset of the root statement are rendered, at
\* most once each, LIMIT before OFFSET, as the last clauses; a limit or
\* offset declared in a nested single join or has-many is not in the text.
C25_RootLimitOffsetOnly ==
    pc = "rendered" =>
        LET st == built.stmt
        IN  /\ Occurs(kwLimit, sql) # {} <=> st.limit # <<>>
            /\ Occurs(kwOffset, sql) # {} <=> st.offset # <<>>
            /\ Cardinality(Occurs(kwLimit, sql)) <= 1
            /\ Cardinality(Occurs(kwOffset, sql)) <= 1
            /\ EndsWith((IF st.limit # <<>> THEN kwLimit \o st.limit ELSE <<>>)
                        \o (IF st.offset # <<>> THEN kwOffset \o st.offset ELSE <<>>))
            /\ OwnLimit # <<>> => st.limit = OwnLimit
            /\ OwnOffset # <<>> => st.offset = OwnOffset
            /\ \A v \in NestedTags(shape.fields, "Limit") :
                   v # OwnLimit => Occurs(kwLimit \o v, sql) = {}
            /\ \A v \in NestedTags(shape.fields, "Offset") :
                   v # OwnOffset => Occurs(kwOffset \o v, sql) = {}

\* the root, a single join and a has-many declare a limit and an offset and
\* the text ends with those of the root
C25_Witness ==
    /\ pc = "rendered"
    /\ shape = pagedJoins
    /\ EndsWith(kwLimit \o <<"1">> \o kwOffset \o <<"2">>)
    /\ Cardinality(NestedTags(shape.fields, "Limit")) = 2

\* ---- the order of the expressions under embedding -------------------------
\* the markers of a kind the root shape declares itself
OwnTags(list) ==
    TagsOf(shape.fields, CASE list = "conditions" -> "Conditions"
                           [] list = "group" -> "GroupBy"
                           [] list = "order" -> "OrderBy")
EmbeddedTags(e, list) ==
    TagsOf(e.sub, CASE list = "conditions" -> "Conditions"
                    [] list = "group" -> "GroupBy"
                    [] list = "order" -> "OrderBy")

\* C26: the conditions, group-by and order-by expressions of an embedded
\* shape are placed before the embedding shape's own expressions of the same
\* kind, whether the embedded field is declared before or after them.
C26_EmbeddedFirst ==
    pc = "built" =>
        \A list \in {"conditions", "group", "order"} :
            LET all == built.stmt[list]
                own == OwnTags(list)
                n == Len(all) - Len(own)
            IN  /\ n >= 0
                /\ SubSeq(all, n + 1, Len(all)) = own
                /\ \A k \in DOMAIN EmbeddedFields :
                       \A t \in Range(EmbeddedTags(EmbeddedFields[k], list)) :
                           \E q \in 1..n : all[q] = t

\* an embedded shape declared after a condition of the embedding shape has
\* its condition placed first
C26_Witness ==
    /\ pc = "built"
    /\ shape.fields = <<mConditions(<<"c","1">>), fMeta>>
    /\ built.stmt.conditions = <<<<"c","2">>, <<"c","1">>>>

\* ---- the select list --------------------------------------------------------
RECURSIVE ColumnTexts(_)
\* the texts of the columns of the statement tree in the order of ColumnList
ColumnTexts(st) ==
    [k \in DOMAIN st.columns |->
        (IF st.columns[k].useTable THEN st.table \o <<".">> ELSE <<>>)
        \o st.columns[k].name]
    \o Concat([k \in DOMAIN st.joins |-> ColumnTexts(st.joins[k])])

\* the rendered text between "SELECT " and " FROM "
SelectList == SubSeq(sql, Len(kwSelect) + 1, Min(Occurs(kwFrom, sql)) - 1)

\* C28: the select list of a statement tree with N >= 1 columns has exactly
\* N-1 ", " separators, one between each two adjacent columns, also when the
\* root or a join has no column of its own and two or more joins.
C28_ColumnSeparators ==
    (pc = "rendered" /\ ColumnList(built.stmt) # <<>>) =>
        /\ SelectList = Separated(ColumnTexts(built.stmt), commaSpace)
        /\ Cardinality(Occurs(commaSpace, SelectList)) = Len(ColumnList(built.stmt)) - 1

\* the same for statement trees whose root has a column of its own
C28_RootHasColumn ==
    built.stmt.columns # <<>> => C28_ColumnSeparators

\* ---- the dedup keys of text identities ------------------------------------
\* rows a cursor yields when text identities are explored
MaxHashRows == 2

\* the characters of a text identity: the separator of rowRef.Hash and a
\* letter
TextAlphabet == {".", "a"}

\* the text identities of up to MaxIdent characters, the empty one included
TextIdents ==
    {StringIdent(t) : t \in UNION {[1..n -> TextAlphabet] : n \in 0..MaxIdent}}

\* All on parents { Name; Kids []struct { Toy } } whose identity columns are
\* text columns
InitHash ==
    /\ shape = parentsMany
    /\ tx = "sqlDB"
    /\ Blank

RowOkText == RowStep(MaxHashRows, TextIdents)

NextHash ==
    \/ Start
    \/ Log
    \/ QueryOk
    \/ RowOkText
    \/ Finish

SpecHash == InitHash /\ [][NextHash]_vars

\* the identity chain of the child of has-many i in row k, and its key
ChainOf(k, i) == <<asString(ChildId(k, i)), asString(RootId(k))>>

\* C27: two identity chains of the same depth that differ in an identity
\* value, also an empty one or one with the '.' separator in it, have
\* different keys, so that two different (ancestors, child) combinations
\* are never merged into one element.
C27_DistinctChainsDistinctKeys ==
    AllManyDone =>
        \A i \in ManyFields :
            /\ \A k, j \in DOMAIN fed :
                   ChainOf(k, i) # ChainOf(j, i) => Hash(ChainOf(k, i)) # Hash(ChainOf(j, i))
            /\ Cardinality({e \in visited : e.hm = <<i>>})
                 = Cardinality({ChainOf(k, i) : k \in DOMAIN fed})

\* the same for identities without the separator
C27_NoSeparator ==
    (\A k \in DOMAIN fed, j \in IdentCols : "." \notin Range(fed[k][j].s))
    => C27_DistinctChainsDistinctKeys

====
